---- MODULE Spec2Model ----
(***************************************************************************)
(* Aura: resilience layer (circuit breaker, retry driver, connection pool, *)
(* resilience executor), connection manager, task orchestrator and action  *)
(* graph engine, modelled from src/src/core/mcp_error_handler.py,          *)
(* src/src/core/mcp_manager.py, src/src/core/orchestrator.py and           *)
(* src/src/core/action_graph.py.                                           *)
(*                                                                         *)
(* The module holds several specifications over one set of variables:      *)
(*   SpecBreaker  one CircuitBreaker driven by its three methods           *)
(*   SpecRetry    one ExponentialBackoff.execute_with_retry call           *)
(*   SpecHandler  MCPErrorHandler.execute_with_error_handling on a pool    *)
(*   SpecTask     Orchestrator task lifecycle                              *)
(*   SpecTaskLive one task's execution unit under fair scheduling          *)
(*   SpecValidate ActionGraphEngine.validate_graph and _topological_sort   *)
(*   SpecGraph    ActionGraphEngine.execute_graph and cancel_execution     *)
(*   SpecPool     ConnectionPool driven by its methods                     *)
(*   SpecManager  MCPManager: a caller's methods and the health-check loop *)
(* Each specification leaves the other components parked in their          *)
(* constructed state.                                                      *)
(***************************************************************************)
EXTENDS Integers, Sequences, FiniteSets, TLC

VARIABLES
    now,            \* time.time(), in seconds
    breaker,        \* a CircuitBreaker object
    bh,             \* observer of the calls made on `breaker`
    retry_config,   \* RetryConfig of the ExponentialBackoff under test
    classifier,     \* TRUE when execute_with_retry is given an error_classifier
    retry,          \* frame of the running execute_with_retry call
    pool,           \* ConnectionPool: circuit_breakers, connection_metrics
    calls,          \* frames of execute_with_error_handling calls
    started,        \* number of execute_with_error_handling calls begun
    tasks,          \* Orchestrator.tasks: task_id -> TaskResult
    units,          \* execution units (_execute_task coroutines), per task id
    stats,          \* Orchestrator.stats: total_tasks, success_rate
    gs,             \* observer of get_stats: whether it has just returned
    paths,          \* frames of the strategy stages of _execute_task, per task id
    graph,          \* the ActionGraph handed to the engine
    engine,         \* ActionGraphEngine: running_graphs, execution_history
    run,            \* frame of the engine call made on `graph`
    manager,        \* MCPManager: its fields and the enabled flags of its config
    op,             \* frame of the MCPManager method a caller is running
    hc,             \* frame of the health-check loop task
    ph              \* observer of the calls made on `pool` itself

breakerVars == <<breaker, bh>>
retryVars   == <<retry_config, classifier, retry>>
handlerVars == <<pool, calls, started>>
taskVars    == <<tasks, units, stats, gs, paths>>
graphVars   == <<graph, engine, run>>
managerVars == <<manager, op, hc, ph>>
vars == <<now, breaker, bh, retry_config, classifier, retry,
          pool, calls, started, tasks, units, stats, gs, paths,
          graph, engine, run,
          manager, op, hc, ph>>

(***************************************************************************)
(* Bounds of the model.                                                    *)
(***************************************************************************)
MaxNow == 6             \* SpecBreaker: the clock stops here
MaxThreshold == 3       \* SpecBreaker: failure_threshold ranges over 1..MaxThreshold
MaxTimeout == 2         \* SpecBreaker: recovery_timeout ranges over 0..MaxTimeout
MaxHalfOpen == 2        \* SpecBreaker: half_open_max_calls ranges over 1..MaxHalfOpen
MaxFailures == 5        \* SpecBreaker: record_failure is not called beyond this count
MaxAttempts == 5        \* SpecRetry: max_attempts ranges over 0..MaxAttempts
HandlerMaxAttempts == 2 \* SpecHandler: max_attempts ranges over 0..HandlerMaxAttempts
MaxCalls == 2           \* SpecHandler: calls begun in one behaviour
TickSeconds == 61       \* SpecHandler: the clock advances in steps of this size
MaxHandlerNow == 61     \* SpecHandler: the clock stops on reaching this
MaxNodes == 3           \* SpecValidate: a graph has up to MaxNodes nodes
MaxEdges == 3           \* SpecValidate: a graph has up to MaxEdges edges
MaxNodeRetry == 2       \* SpecGraph: node.retry_count ranges over 0..MaxNodeRetry
MaxRetryCount == 1      \* SpecTask: request.retry_count ranges over 0..MaxRetryCount
MaxConnections == 2     \* SpecPool: max_connections ranges over 0..MaxConnections
MaxPoolRecords == 1     \* results are recorded while a connection's counters are below
MaxReconnectAttempts == 2  \* SpecManager: the setting max_reconnect_attempts
MaxHealthFailures == 3  \* SpecManager: nothing fails once a failure counter is here

(***************************************************************************)
(* ConnectionState (mcp_error_handler.py:60-67); the breaker uses          *)
(* CONNECTED for Closed, CIRCUIT_OPEN for Open, RECONNECTING for HalfOpen. *)
(***************************************************************************)
CONNECTED == "connected"
CIRCUIT_OPEN == "circuit_open"
RECONNECTING == "reconnecting"

\* CircuitBreakerConfig defaults
default_failure_threshold == 5
default_recovery_timeout == 60
default_half_open_max_calls == 3

CircuitBreakerConfig(ft, rt, hm) ==
    [failure_threshold |-> ft, recovery_timeout |-> rt, half_open_max_calls |-> hm]

\* CircuitBreaker.__init__
CircuitBreaker(config) ==
    [config |-> config,
     state |-> CONNECTED,
     failure_count |-> 0,
     last_failure_time |-> 0,
     half_open_calls |-> 0]

can_execute_at_timeout(b, t) ==
    IF b.state = CONNECTED THEN [ret |-> TRUE, breaker |-> b]
    ELSE IF b.state = CIRCUIT_OPEN
         THEN IF t - b.last_failure_time >= b.config.recovery_timeout
              THEN [ret |-> TRUE,
                    breaker |-> [b EXCEPT !.state = RECONNECTING, !.half_open_calls = 0]]
              ELSE [ret |-> FALSE, breaker |-> b]
    ELSE IF b.state = RECONNECTING
         THEN [ret |-> b.half_open_calls < b.config.half_open_max_calls, breaker |-> b]
    ELSE [ret |-> FALSE, breaker |-> b]

\* CircuitBreaker.can_execute called on b at time t: the value it returns (ret)
\* and the breaker it leaves (breaker)
can_execute(b, t) ==
    IF b.state = CONNECTED THEN [ret |-> TRUE, breaker |-> b]
    ELSE IF b.state = CIRCUIT_OPEN
         THEN IF t - b.last_failure_time > b.config.recovery_timeout
              THEN [ret |-> TRUE,
                    breaker |-> [b EXCEPT !.state = RECONNECTING, !.half_open_calls = 0]]
              ELSE [ret |-> FALSE, breaker |-> b]
    ELSE IF b.state = RECONNECTING
         THEN [ret |-> b.half_open_calls < b.config.half_open_max_calls, breaker |-> b]
    ELSE [ret |-> FALSE, breaker |-> b]

record_success_late(b) ==
    IF b.state = RECONNECTING
    THEN LET n == b.half_open_calls + 1 IN
         IF n > b.config.half_open_max_calls
         THEN [b EXCEPT !.half_open_calls = n, !.state = CONNECTED, !.failure_count = 0]
         ELSE [b EXCEPT !.half_open_calls = n]
    ELSE IF b.state = CONNECTED
         THEN [b EXCEPT !.failure_count = 0]
    ELSE b

\* CircuitBreaker.record_success
record_success(b) ==
    IF b.state = RECONNECTING
    THEN LET n == b.half_open_calls + 1 IN
         IF n >= b.config.half_open_max_calls
         THEN [b EXCEPT !.half_open_calls = n, !.state = CONNECTED, !.failure_count = 0]
         ELSE [b EXCEPT !.half_open_calls = n]
    ELSE IF b.state = CONNECTED
         THEN [b EXCEPT !.failure_count = 0]
    ELSE b

record_failure_late(b, t) ==
    LET n == b.failure_count + 1
        c == [b EXCEPT !.failure_count = n, !.last_failure_time = t] IN
    IF n > b.config.failure_threshold
    THEN [c EXCEPT !.state = CIRCUIT_OPEN]
    ELSE IF b.state = RECONNECTING
         THEN [c EXCEPT !.state = CIRCUIT_OPEN]
    ELSE c

\* CircuitBreaker.record_failure, called at time t
record_failure(b, t) ==
    LET n == b.failure_count + 1
        c == [b EXCEPT !.failure_count = n, !.last_failure_time = t] IN
    IF n >= b.config.failure_threshold
    THEN [c EXCEPT !.state = CIRCUIT_OPEN]
    ELSE IF b.state = RECONNECTING
         THEN [c EXCEPT !.state = CIRCUIT_OPEN]
    ELSE c

(***************************************************************************)
(* Failures.  An exception is [src, n, msg]: who raised it, at which       *)
(* invocation, and which of the classifier's keyword groups its message    *)
(* str(error).lower() contains.                                            *)
(***************************************************************************)
CONNECTION_TIMEOUT == "connection_timeout"
NETWORK_ERROR == "network_error"
PROTOCOL_ERROR == "protocol_error"
AUTHENTICATION_ERROR == "authentication_error"
RESOURCE_EXHAUSTED == "resource_exhausted"
UNKNOWN_ERROR == "unknown_error"
ErrorType == {CONNECTION_TIMEOUT, NETWORK_ERROR, PROTOCOL_ERROR,
              AUTHENTICATION_ERROR, RESOURCE_EXHAUSTED, UNKNOWN_ERROR}

\* keyword groups: "timeout" = {timeout, timed out}, "connection" = {connection, network},
\* "auth" = {auth, permission}, "protocol" = {protocol, invalid}, "resource" = {resource, limit}
Messages == {{}, {"timeout"}, {"connection"}, {"auth"}, {"protocol"}, {"resource"},
             {"auth", "timeout"}}

\* MCPErrorHandler.classify_error
classify_error(error) ==
    IF "timeout" \in error.msg THEN CONNECTION_TIMEOUT
    ELSE IF "connection" \in error.msg THEN NETWORK_ERROR
    ELSE IF "auth" \in error.msg THEN AUTHENTICATION_ERROR
    ELSE IF "protocol" \in error.msg THEN PROTOCOL_ERROR
    ELSE IF "resource" \in error.msg THEN RESOURCE_EXHAUSTED
    ELSE UNKNOWN_ERROR

None == [src |-> "None", n |-> 0, msg |-> {}]
\* what `raise None` raises: TypeError("exceptions must derive from BaseException")
TypeErrorOfRaiseNone == [src |-> "TypeError", n |-> 0, msg |-> {}]
OpError(n, m) == [src |-> "op", n |-> n, msg |-> m]
OpResult(n) == [src |-> "op_result", n |-> n, msg |-> {}]

NoOutcome == [kind |-> "none", what |-> None]
Returned(v) == [kind |-> "returned", what |-> v]
Raised(e) == [kind |-> "raised", what |-> e]

(***************************************************************************)
(* ExponentialBackoff.execute_with_retry.  A frame holds the locals of one *)
(* call plus counters of what it did: invocations of the operation, failed *)
(* invocations, backoff sleeps.  The coroutine runs without interruption   *)
(* between two awaits (the operation, asyncio.sleep), so each operator     *)
(* below is the code from one await to the next.                           *)
(***************************************************************************)
default_max_attempts == 5

RetryConfig(n) == [max_attempts |-> n]

NewRetry == [pc |-> "idle", attempt |-> 0, last_exception |-> None,
             invocations |-> 0, failed |-> 0, sleeps |-> 0, outcome |-> NoOutcome]

loop_iteration_off_by_one(f, config, a) ==
    IF a <= config.max_attempts + 1
    THEN [f EXCEPT !.pc = "in_op", !.attempt = a, !.invocations = @ + 1]
    ELSE [f EXCEPT !.pc = "done",
                   !.outcome = Raised(IF f.last_exception = None
                                      THEN TypeErrorOfRaiseNone ELSE f.last_exception)]

\* `for attempt in range(1, max_attempts + 1)` reaching attempt a: the operation is
\* invoked, or the range is exhausted and `raise last_exception` runs
loop_iteration(f, config, a) ==
    IF a <= config.max_attempts
    THEN [f EXCEPT !.pc = "in_op", !.attempt = a, !.invocations = @ + 1]
    ELSE [f EXCEPT !.pc = "done",
                   !.outcome = Raised(IF f.last_exception = None
                                      THEN TypeErrorOfRaiseNone ELSE f.last_exception)]

\* entry of execute_with_retry up to its first await
execute_with_retry(config) == loop_iteration(NewRetry, config, 1)

\* `return await operation()` when the operation returns v
operation_returns(f, v) == [f EXCEPT !.pc = "done", !.outcome = Returned(v)]

operation_raises_retrying_auth(f, config, cl, e) ==
    LET g == [f EXCEPT !.last_exception = e, !.failed = @ + 1] IN
    IF f.attempt < config.max_attempts
    THEN [g EXCEPT !.pc = "sleep", !.sleeps = @ + 1]
    ELSE loop_iteration(g, config, f.attempt + 1)

operation_raises_swallowing(f, config, cl, e) ==
    LET g == [f EXCEPT !.last_exception = e, !.failed = @ + 1]
        error_type == IF cl THEN classify_error(e) ELSE UNKNOWN_ERROR IN
    IF error_type \in {AUTHENTICATION_ERROR}
    THEN [g EXCEPT !.pc = "done", !.outcome = Raised(e)]
    ELSE IF f.attempt < config.max_attempts
         THEN [g EXCEPT !.pc = "sleep", !.sleeps = @ + 1]
    ELSE [g EXCEPT !.pc = "done", !.outcome = Returned(None)]

\* the except clause, when the operation raises e; cl: an error_classifier was given
operation_raises(f, config, cl, e) ==
    LET g == [f EXCEPT !.last_exception = e, !.failed = @ + 1]
        error_type == IF cl THEN classify_error(e) ELSE UNKNOWN_ERROR IN
    IF error_type \in {AUTHENTICATION_ERROR}
    THEN [g EXCEPT !.pc = "done", !.outcome = Raised(e)]
    ELSE IF f.attempt < config.max_attempts
         THEN [g EXCEPT !.pc = "sleep", !.sleeps = @ + 1]
    ELSE loop_iteration(g, config, f.attempt + 1)

\* asyncio.sleep(delay) is over: the loop goes on
sleep_over(f, config) == loop_iteration(f, config, f.attempt + 1)

(***************************************************************************)
(* ErrorMetrics and ConnectionPool.                                        *)
(***************************************************************************)
NoTime == -1    \* last_error_time = None

ErrorMetrics ==
    [total_errors |-> 0,
     last_error_time |-> NoTime,
     error_types |-> [k \in ErrorType |-> 0],
     consecutive_failures |-> 0,
     success_count |-> 0]

\* ErrorMetrics.record_error at time t
record_error(m, error_type, t) ==
    [m EXCEPT !.total_errors = @ + 1,
              !.error_types[error_type] = @ + 1,
              !.consecutive_failures = @ + 1,
              !.last_error_time = t]

\* ErrorMetrics.record_success
metrics_record_success(m) ==
    [m EXCEPT !.success_count = @ + 1, !.consecutive_failures = 0]

manager_max_connections == 20   \* MCPManager: ConnectionPool(max_connections=20)

\* ConnectionPool.__init__: three maps keyed by connection name
ConnectionPool(max) ==
    [max_connections |-> max,
     active_connections |-> <<>>,
     connection_metrics |-> <<>>,
     circuit_breakers |-> <<>>]

Put(map, key, value) ==
    [k \in DOMAIN map \cup {key} |-> IF k = key THEN value ELSE map[k]]

\* ConnectionPool.add_connection; raises RuntimeError("Connection pool full") when full
add_connection_full(p) == Cardinality(DOMAIN p.active_connections) >= p.max_connections

add_connection_unbounded(p, name, connection) ==
    [p EXCEPT
        !.active_connections = Put(@, name, connection),
        !.connection_metrics = Put(@, name, ErrorMetrics),
        !.circuit_breakers = Put(@, name,
            CircuitBreaker(CircuitBreakerConfig(default_failure_threshold,
                default_recovery_timeout, default_half_open_max_calls)))]

add_connection(p, name, connection) ==
    IF add_connection_full(p) THEN p
    ELSE [p EXCEPT
            !.active_connections = Put(@, name, connection),
            !.connection_metrics = Put(@, name, ErrorMetrics),
            !.circuit_breakers = Put(@, name,
                CircuitBreaker(CircuitBreakerConfig(default_failure_threshold,
                    default_recovery_timeout, default_half_open_max_calls)))]

\* ConnectionPool.remove_connection
remove_connection(p, name) ==
    IF name \in DOMAIN p.active_connections
    THEN [p EXCEPT
            !.active_connections = [k \in DOMAIN @ \ {name} |-> @[k]],
            !.connection_metrics = [k \in DOMAIN @ \ {name} |-> @[k]],
            !.circuit_breakers = [k \in DOMAIN @ \ {name} |-> @[k]]]
    ELSE p

\* ConnectionPool.get_healthy_connections at time t: the names, and the pool after
\* the can_execute calls (an Open breaker past its timeout becomes HalfOpen)
get_healthy_connections(p, t) ==
    [ret |-> {name \in DOMAIN p.active_connections :
                can_execute(p.circuit_breakers[name], t).ret},
     pool |-> [p EXCEPT !.circuit_breakers =
                  [name \in DOMAIN @ |->
                      IF name \in DOMAIN p.active_connections
                      THEN can_execute(@[name], t).breaker ELSE @[name]]]]

\* ConnectionPool.record_operation_result at time t; error_type "None" when not given
record_operation_result(p, name, success, error_type, t) ==
    IF name \notin DOMAIN p.connection_metrics THEN p
    ELSE IF success
         THEN [p EXCEPT !.connection_metrics[name] = metrics_record_success(@),
                        !.circuit_breakers[name] = record_success(@)]
    ELSE [p EXCEPT !.connection_metrics[name] =
                        IF error_type # "None" THEN record_error(@, error_type, t) ELSE @,
                   !.circuit_breakers[name] = record_failure(@, t)]

(***************************************************************************)
(* MCPErrorHandler.execute_with_error_handling.  A frame holds one call:   *)
(* its arguments (connection_name, whether a fallback was given), the      *)
(* frame of its execute_with_retry, and counters of what it did: calls of  *)
(* record_operation_result (records), invocations of the fallback         *)
(* (fallback_calls) and how the fallback ended (fallback_outcome).         *)
(* pc: "idle", "retry" (inside execute_with_retry), "fallback_unavailable" *)
(* (awaiting the fallback at line 570), "fallback_after_failure" (awaiting *)
(* the fallback at line 596), "done".                                      *)
(***************************************************************************)
NewCall == [pc |-> "idle", connection_name |-> "", fallback |-> FALSE, admitted |-> FALSE,
            retry |-> NewRetry, records |-> <<>>, fallback_calls |-> 0,
            fallback_outcome |-> NoOutcome, outcome |-> NoOutcome]

Unavailable == [src |-> "RuntimeError", n |-> 0, msg |-> {"connection"}]
FallbackResult == [src |-> "fallback_result", n |-> 0, msg |-> {}]
FallbackError(m) == [src |-> "fallback", n |-> 0, msg |-> m]

\* a handler step gives the new frame (call) and the new pool (pool)

\* lines 584-600 up to the await of the fallback: classify, record the failure,
\* then start the fallback or re-raise
final_failure(c, p, e, t) ==
    LET error_type == classify_error(e)
        d == [c EXCEPT !.retry.pc = "done",
                       !.records = Append(@, [name |-> c.connection_name,
                                              success |-> FALSE,
                                              error_type |-> error_type])] IN
    [call |-> IF c.fallback
              THEN [d EXCEPT !.pc = "fallback_after_failure", !.fallback_calls = @ + 1]
              ELSE [d EXCEPT !.pc = "done", !.outcome = Raised(e)],
     pool |-> record_operation_result(p, c.connection_name, FALSE, error_type, t)]

\* lines 580-582: record the success and return the result
final_success(c, p, v, t) ==
    [call |-> [c EXCEPT !.pc = "done", !.outcome = Returned(v),
                        !.records = Append(@, [name |-> c.connection_name,
                                               success |-> TRUE,
                                               error_type |-> "None"])],
     pool |-> record_operation_result(p, c.connection_name, TRUE, "None", t)]

after_retry_step_recording_attempts(c, p, r, t) ==
    LET d == [c EXCEPT !.retry = r] IN
    IF r.pc = "sleep"
    THEN [call |-> [d EXCEPT !.records = Append(@, [name |-> c.connection_name,
                                 success |-> FALSE,
                                 error_type |-> classify_error(r.last_exception)])],
          pool |-> record_operation_result(p, c.connection_name, FALSE,
                                           classify_error(r.last_exception), t)]
    ELSE IF r.pc # "done" THEN [call |-> d, pool |-> p]
    ELSE IF r.outcome.kind = "returned" THEN final_success(d, p, r.outcome.what, t)
    ELSE final_failure(d, p, r.outcome.what, t)

\* what follows a step of execute_with_retry that left the retry frame r
after_retry_step(c, p, r, t) ==
    LET d == [c EXCEPT !.retry = r] IN
    IF r.pc # "done" THEN [call |-> d, pool |-> p]
    ELSE IF r.outcome.kind = "returned" THEN final_success(d, p, r.outcome.what, t)
    ELSE final_failure(d, p, r.outcome.what, t)

execute_with_error_handling_recording_refusal(p, name, fallback, config, t) ==
    LET c == [NewCall EXCEPT !.connection_name = name, !.fallback = fallback]
        has_breaker == name \in DOMAIN p.circuit_breakers
        verdict == can_execute(p.circuit_breakers[name], t)
        q == IF has_breaker THEN [p EXCEPT !.circuit_breakers[name] = verdict.breaker]
             ELSE p IN
    IF ~has_breaker \/ ~verdict.ret
    THEN [call |-> IF fallback
                   THEN [c EXCEPT !.pc = "fallback_unavailable", !.fallback_calls = @ + 1]
                   ELSE [c EXCEPT !.pc = "done", !.outcome = Raised(Unavailable)],
          pool |-> record_operation_result(q, name, FALSE, NETWORK_ERROR, t)]
    ELSE after_retry_step([c EXCEPT !.pc = "retry", !.admitted = TRUE], q,
                          execute_with_retry(config), t)

\* lines 565-578 up to the first await: the breaker's verdict, then the fallback,
\* the RuntimeError, or execute_with_retry up to its first invocation
execute_with_error_handling(p, name, fallback, config, t) ==
    LET c == [NewCall EXCEPT !.connection_name = name, !.fallback = fallback]
        has_breaker == name \in DOMAIN p.circuit_breakers
        verdict == can_execute(p.circuit_breakers[name], t)
        q == IF has_breaker THEN [p EXCEPT !.circuit_breakers[name] = verdict.breaker]
             ELSE p IN
    IF ~has_breaker \/ ~verdict.ret
    THEN [call |-> IF fallback
                   THEN [c EXCEPT !.pc = "fallback_unavailable", !.fallback_calls = @ + 1]
                   ELSE [c EXCEPT !.pc = "done", !.outcome = Raised(Unavailable)],
          pool |-> q]
    ELSE after_retry_step([c EXCEPT !.pc = "retry", !.admitted = TRUE], q,
                          execute_with_retry(config), t)

\* the awaited fallback returns v
fallback_returns(c, v) ==
    [c EXCEPT !.pc = "done", !.fallback_outcome = Returned(v), !.outcome = Returned(v)]

\* the awaited fallback raises e: at line 570 e propagates; at lines 595-600 it is
\* logged and the failure of the operation is raised
fallback_raises_propagating(c, e) ==
    [c EXCEPT !.pc = "done", !.fallback_outcome = Raised(e), !.outcome = Raised(e)]

fallback_raises(c, e) ==
    IF c.pc = "fallback_unavailable"
    THEN [c EXCEPT !.pc = "done", !.fallback_outcome = Raised(e), !.outcome = Raised(e)]
    ELSE [c EXCEPT !.pc = "done", !.fallback_outcome = Raised(e),
                   !.outcome = Raised(c.retry.outcome.what)]

(***************************************************************************)
(* Orchestrator: tasks maps a task id to its TaskResult; units holds, per  *)
(* task id, the coroutine _execute_task scheduled by create_task: the      *)
(* await it is suspended at (pc), request.retry_count, and what the unit   *)
(* has done so far: the number of pipeline runs begun (runs), the number   *)
(* that ended in the except clause (failed), whether check_policy has      *)
(* answered Deny (denied), and the retry_count the request was created     *)
(* with (request_retry_count).                                             *)
(* pc: "none", "scheduled" (created by asyncio.create_task, not yet run),  *)
(* "parse", "risk", "policy", "decide", "execute" (awaiting that stage),   *)
(* "sleep" (asyncio.sleep(1) before the retry), "finished".                *)
(***************************************************************************)
PENDING == "pending"
RUNNING == "running"
COMPLETED == "completed"
FAILED == "failed"
CANCELLED == "cancelled"
Terminal == {COMPLETED, FAILED, CANCELLED}

SCRIPT == "script"
AI_AGENT == "ai_agent"

NoError == [stage |-> "None", run |-> 0]

\* TaskResult(task_id, status=PENDING)
TaskResult == [status |-> PENDING, result |-> "None", error |-> NoError,
               completed_at |-> FALSE]

NoUnit == [pc |-> "none", retry_count |-> 0, runs |-> 0, mode |-> "None",
           failed |-> 0, denied |-> FALSE, request_retry_count |-> 0]

\* _execute_task lines 295-303: the task is marked Running and parsing begins
begin_execute_task(task, unit) ==
    [task |-> [task EXCEPT !.status = RUNNING],
     unit |-> [unit EXCEPT !.pc = "parse", !.runs = @ + 1, !.mode = "None"]]

\* the except clause with `request.retry_count -= 1` left out
except_clause_keeping_count(task, unit, stage) ==
    [task |-> [task EXCEPT !.status = FAILED,
                           !.error = [stage |-> stage, run |-> unit.runs],
                           !.completed_at = TRUE],
     unit |-> IF unit.retry_count > 0
              THEN [unit EXCEPT !.pc = "sleep", !.failed = @ + 1,
                                !.denied = @ \/ stage = "policy_violation"]
              ELSE [unit EXCEPT !.pc = "finished", !.failed = @ + 1,
                                !.denied = @ \/ stage = "policy_violation"]]

\* _execute_task lines 351-364: the except clause, for a failure raised in `stage`
except_clause(task, unit, stage) ==
    [task |-> [task EXCEPT !.status = FAILED,
                           !.error = [stage |-> stage, run |-> unit.runs],
                           !.completed_at = TRUE],
     unit |-> IF unit.retry_count > 0
              THEN [unit EXCEPT !.pc = "sleep", !.retry_count = @ - 1,
                                !.failed = @ + 1,
                                !.denied = @ \/ stage = "policy_violation"]
              ELSE [unit EXCEPT !.pc = "finished", !.failed = @ + 1,
                                !.denied = @ \/ stage = "policy_violation"]]

\* _execute_task lines 343-347: the strategy returned a result
record_result(task, unit) ==
    [task |-> [task EXCEPT !.status = COMPLETED, !.result = unit.mode,
                           !.completed_at = TRUE],
     unit |-> [unit EXCEPT !.pc = "finished"]]

decide_mode_at_least(confidence) == IF confidence >= 85 THEN SCRIPT ELSE AI_AGENT

\* _decide_execution_strategy line 383; confidence in hundredths, -1 for no match
decide_mode(confidence) == IF confidence > 85 THEN SCRIPT ELSE AI_AGENT

(***************************************************************************)
(* Stages 4 and 5 of _execute_task, await by await.  A frame holds one     *)
(* attempt: the confidence of the skill match (hundredths, -1 for no       *)
(* match), the mode chosen, and the collaborators invoked so far           *)
(* (invoked).  pc: "idle", "find_skill", "execute_skill", "explore",       *)
(* "execute_graph", "done".                                                *)
(***************************************************************************)
NewPath == [pc |-> "idle", confidence |-> -1, mode |-> "None", invoked |-> <<>>,
            runs |-> 0, outcome |-> "none"]

\* _decide_execution_strategy after find_matching_skill returned
decide_execution_strategy(f, confidence) ==
    [f EXCEPT !.confidence = confidence, !.mode = decide_mode(confidence)]

\* _execute_strategy up to its first await: execute_skill, or
\* _execute_ai_agent_mode up to explore_and_model
execute_strategy(f) ==
    IF f.mode = SCRIPT
    THEN [f EXCEPT !.pc = "execute_skill", !.invoked = Append(@, "execute_skill")]
    ELSE [f EXCEPT !.pc = "explore", !.invoked = Append(@, "explore_and_model")]

\* _execute_ai_agent_mode after explore_and_model returned:
\* _generate_action_graph awaits nothing, then execute_graph is awaited
explore_returns(f) ==
    [f EXCEPT !.pc = "execute_graph", !.invoked = Append(@, "execute_graph")]

\* _execute_ai_agent_mode after execute_graph returned a result with
\* result["success"] = success and execution_time < 30 = fast:
\* _consider_skill_generation subscripts the ActionGraph dataclass
\* (action_graph["nodes"]), which raises TypeError
execute_graph_returns(f, success, fast) ==
    [f EXCEPT !.pc = "done",
              !.outcome = IF success /\ fast THEN "raised" ELSE "returned"]

\* a / b as Python's true division gives it: two quotients are the same float
\* exactly when their fractions in lowest terms are the same
RECURSIVE GCD(_, _)
GCD(a, b) == IF b = 0 THEN a ELSE GCD(b, a % b)

TrueDiv(a, b) == [num |-> a \div GCD(a, b), den |-> b \div GCD(a, b)]

\* Orchestrator.stats as __init__ leaves it: "total_tasks": 0,
\* "success_rate": 0.0 (avg_execution_time and token_usage, which no claim
\* reads, are left out)
Stats == [total_tasks |-> 0, success_rate |-> TrueDiv(0, 1)]

get_stats_over_total_tasks(ts, st) ==
    LET completed_tasks == {id \in DOMAIN ts : ts[id].status = COMPLETED} IN
    IF st.total_tasks > 0
    THEN [st EXCEPT !.success_rate = TrueDiv(Cardinality(completed_tasks), st.total_tasks)]
    ELSE st

\* get_stats: the dict it returns is self.stats itself
get_stats(ts, st) ==
    LET completed_tasks == {id \in DOMAIN ts : ts[id].status = COMPLETED}
        failed_tasks == {id \in DOMAIN ts : ts[id].status = FAILED}
        total_completed == Cardinality(completed_tasks)
        total_failed == Cardinality(failed_tasks)
        total_processed == total_completed + total_failed IN
    IF total_processed > 0
    THEN [st EXCEPT !.success_rate = TrueDiv(total_completed, total_processed)]
    ELSE st

\* cancel_task without the terminal-status test of line 235
cancel_task_any_status(ts, task_id) ==
    IF task_id \notin DOMAIN ts THEN [ret |-> FALSE, tasks |-> ts]
    ELSE [ret |-> TRUE,
          tasks |-> [ts EXCEPT ![task_id].status = CANCELLED,
                               ![task_id].completed_at = TRUE]]

\* cancel_task: the value it returns and the tasks it leaves
cancel_task(ts, task_id) ==
    IF task_id \notin DOMAIN ts THEN [ret |-> FALSE, tasks |-> ts]
    ELSE IF ts[task_id].status \in {COMPLETED, FAILED, CANCELLED}
         THEN [ret |-> FALSE, tasks |-> ts]
    ELSE [ret |-> TRUE,
          tasks |-> [ts EXCEPT ![task_id].status = CANCELLED,
                               ![task_id].completed_at = TRUE]]

\* Orchestrator.shutdown lines 763-767: cancel_task on every Running task
shutdown_tasks(ts) ==
    [id \in DOMAIN ts |->
        IF ts[id].status = RUNNING THEN cancel_task(ts, id).tasks[id] ELSE ts[id]]


(***************************************************************************)
(* Action graph engine.  A graph holds its nodes and edges as the lists    *)
(* the code iterates over.  An optional field is NoField (Python None), "" *)
(* or a value.  start_time and end_time are FALSE until set;               *)
(* execution_log is the number of entries logged.                          *)
(***************************************************************************)
NAVIGATE == "navigate"
CLICK == "click"
TYPE == "type"
ASSERT == "assert"
WAIT == "wait"
NodeType == {NAVIGATE, CLICK, TYPE, ASSERT, WAIT}

NodeStatus_PENDING == "pending"
NodeStatus_RUNNING == "running"
NodeStatus_COMPLETED == "completed"
NodeStatus_FAILED == "failed"
NodeStatus_SKIPPED == "skipped"

NORMAL == "normal"
DRY_RUN == "dry_run"

NoField == "None"
\* Python truthiness of an optional string: `not v`
falsy(v) == v \in {NoField, ""}

default_node_retry_count == 3

ActionNode(id, type, locator, text, url, retry_count) ==
    [id |-> id, type |-> type, locator |-> locator, text |-> text, url |-> url,
     retry_count |-> retry_count, status |-> NodeStatus_PENDING]

ActionEdge(from_node, to_node) == [from_node |-> from_node, to_node |-> to_node]

ActionGraph(id, nodes, edges) ==
    [id |-> id, nodes |-> nodes, edges |-> edges, status |-> NodeStatus_PENDING,
     start_time |-> FALSE, end_time |-> FALSE, execution_log |-> 0]

ActionGraphEngine == [running_graphs |-> {}, execution_history |-> <<>>]

ExecutionResult(g, success, completed_nodes, error_message) ==
    [graph_id |-> g.id, success |-> success, completed_nodes |-> completed_nodes,
     total_nodes |-> Len(g.nodes), error_message |-> error_message]

\* node_ids = [node.id for node in graph.nodes]
node_ids(g) == [i \in 1..Len(g.nodes) |-> g.nodes[i].id]
\* set(node_ids); `x in node_ids`
id_set(g) == {g.nodes[i].id : i \in 1..Len(g.nodes)}

ValidationError(kind, ref) == [kind |-> kind, ref |-> ref]

\* validate_graph lines 192-197: the loop over graph.edges, from edge k on
RECURSIVE edge_errors(_, _)
edge_errors(g, k) ==
    IF k > Len(g.edges) THEN <<>>
    ELSE (IF g.edges[k].from_node \notin id_set(g)
          THEN <<ValidationError("edge", g.edges[k].from_node)>> ELSE <<>>)
         \o (IF g.edges[k].to_node \notin id_set(g)
             THEN <<ValidationError("edge", g.edges[k].to_node)>> ELSE <<>>)
         \o edge_errors(g, k + 1)

\* the loop over graph.nodes with the `not node.text` test of a Type node left out
RECURSIVE node_errors_without_text(_, _)
node_errors_without_text(g, k) ==
    IF k > Len(g.nodes) THEN <<>>
    ELSE LET node == g.nodes[k] IN
         (IF node.type \in {NAVIGATE} /\ falsy(node.url)
          THEN <<ValidationError("url", node.id)>> ELSE <<>>)
         \o (IF node.type \in {CLICK, TYPE, ASSERT} /\ falsy(node.locator)
             THEN <<ValidationError("locator", node.id)>> ELSE <<>>)
         \o node_errors_without_text(g, k + 1)

\* validate_graph lines 199-206: the loop over graph.nodes, from node k on
RECURSIVE node_errors(_, _)
node_errors(g, k) ==
    IF k > Len(g.nodes) THEN <<>>
    ELSE LET node == g.nodes[k] IN
         (IF node.type \in {NAVIGATE} /\ falsy(node.url)
          THEN <<ValidationError("url", node.id)>> ELSE <<>>)
         \o (IF node.type \in {CLICK, TYPE, ASSERT} /\ falsy(node.locator)
             THEN <<ValidationError("locator", node.id)>> ELSE <<>>)
         \o (IF node.type = TYPE /\ falsy(node.text)
             THEN <<ValidationError("text", node.id)>> ELSE <<>>)
         \o node_errors(g, k + 1)

validate_graph_without_text(g) ==
    (IF Len(node_ids(g)) # Cardinality(id_set(g))
     THEN <<ValidationError("unique", "")>> ELSE <<>>)
    \o edge_errors(g, 1)
    \o node_errors_without_text(g, 1)

\* validate_graph: the list of errors, in the order the code appends them
validate_graph(g) ==
    (IF Len(node_ids(g)) # Cardinality(id_set(g))
     THEN <<ValidationError("unique", "")>> ELSE <<>>)
    \o edge_errors(g, 1)
    \o node_errors(g, 1)

\* _topological_sort: visit(node_id) and its loop over graph.edges from edge
\* k on; st holds the closure's `visited` and `result`
RECURSIVE visit(_, _, _)
RECURSIVE visit_edges(_, _, _, _)
visit_edges(g, node_id, k, st) ==
    IF k > Len(g.edges) THEN [st EXCEPT !.result = Append(@, node_id)]
    ELSE IF g.edges[k].to_node = node_id
         THEN visit_edges(g, node_id, k + 1, visit(g, g.edges[k].from_node, st))
         ELSE visit_edges(g, node_id, k + 1, st)

visit(g, node_id, st) ==
    IF node_id \in st.visited THEN st
    ELSE visit_edges(g, node_id, 1, [st EXCEPT !.visited = @ \cup {node_id}])

\* `for node in graph.nodes: visit(node.id)`, from node k on
RECURSIVE visit_nodes(_, _, _)
visit_nodes(g, k, st) ==
    IF k > Len(g.nodes) THEN st
    ELSE visit_nodes(g, k + 1, visit(g, g.nodes[k].id, st))

\* _topological_sort: the execution order
topological_sort(g) ==
    IF g.edges = <<>> THEN node_ids(g)
    ELSE visit_nodes(g, 1, [visited |-> {}, result |-> <<>>]).result

(***************************************************************************)
(* execute_graph.  run is the frame of the call: the await it is suspended *)
(* at (pc: "idle", "handler" = awaiting executor(node, page_context),      *)
(* "sleep" = awaiting asyncio.sleep(1), "done"), its locals (mode,         *)
(* execution_order, the position reached in it, completed_nodes, attempt)  *)
(* and what it has done: the ids of the nodes whose handler it invoked,    *)
(* one entry per invocation (invoked), the ids of the nodes whose handler  *)
(* returned (succeeded), whether cancel_execution has returned True for    *)
(* the graph (cancelled), the validation errors it found and how it ended  *)
(* (outcome).  Each operator is the code from one await to    *)
(* the next and yields the graph, the engine and the frame it leaves.      *)
(***************************************************************************)
NewRun == [pc |-> "idle", mode |-> NORMAL, errors |-> <<>>, execution_order |-> <<>>,
           position |-> 0, completed_nodes |-> 0, attempt |-> 0,
           invoked |-> <<>>, succeeded |-> {}, cancelled |-> FALSE,
           outcome |-> NoOutcome]

\* the local error_message is assigned only in the except clause of lines 264-267
Unbound == "unbound"
UnboundLocalError == [src |-> "UnboundLocalError", n |-> 0, msg |-> {}]

\* `next(n for n in graph.nodes if n.id == node_id)`: the first such node
node_index(g, node_id) ==
    CHOOSE i \in 1..Len(g.nodes) :
        /\ g.nodes[i].id = node_id
        /\ \A j \in 1..(i - 1) : g.nodes[j].id # node_id

\* execute_graph lines 269-291: status, result, clean-up
finish(g, e, r, success, error_message) ==
    LET g2 == [g EXCEPT !.status = IF success THEN NodeStatus_COMPLETED
                                   ELSE NodeStatus_FAILED,
                        !.end_time = TRUE]
        result == ExecutionResult(g2, success, r.completed_nodes,
                      IF success THEN "None" ELSE error_message)
    IN IF ~success /\ error_message = Unbound
       THEN [graph |-> g2, engine |-> e,
             run |-> [r EXCEPT !.pc = "done", !.outcome = Raised(UnboundLocalError)]]
       ELSE [graph |-> g2,
             engine |-> [e EXCEPT !.running_graphs = @ \ {g.id},
                                  !.execution_history = Append(@, result)],
             run |-> [r EXCEPT !.pc = "done", !.outcome = Returned(result)]]

\* the node loop whose DRY_RUN branch leaves out `completed_nodes += 1`
RECURSIVE node_loop_dry_run_not_counting(_, _, _)
node_loop_dry_run_not_counting(g, e, r) ==
    IF r.position >= Len(r.execution_order)
    THEN finish(g, e, r, r.completed_nodes = Len(g.nodes), Unbound)
    ELSE LET node_id == r.execution_order[r.position + 1]
             i == node_index(g, node_id)
         IN IF r.mode = DRY_RUN
            THEN node_loop_dry_run_not_counting(
                     [g EXCEPT !.nodes[i].status = NodeStatus_COMPLETED,
                               !.execution_log = @ + 1],
                     e, [r EXCEPT !.position = @ + 1])
            ELSE LET g2 == [g EXCEPT !.nodes[i].status = NodeStatus_RUNNING] IN
                 IF g.nodes[i].retry_count <= 0
                 THEN finish(g2, e, [r EXCEPT !.position = @ + 1],
                             r.completed_nodes = Len(g.nodes), Unbound)
                 ELSE [graph |-> g2, engine |-> e,
                       run |-> [r EXCEPT !.position = @ + 1, !.pc = "handler",
                                         !.attempt = 0,
                                         !.invoked = Append(@, node_id)]]

\* execute_graph lines 238-262: the loop over execution_order from the node after
\* `position`, up to the next await.  _execute_node (321-336) marks the node
\* Running and awaits the handler; with retry_count <= 0 its loop is empty and it
\* returns None, which execute_graph takes as failure.
RECURSIVE node_loop(_, _, _)
node_loop(g, e, r) ==
    IF r.position >= Len(r.execution_order)
    THEN finish(g, e, r, r.completed_nodes = Len(g.nodes), Unbound)
    ELSE LET node_id == r.execution_order[r.position + 1]
             i == node_index(g, node_id)
         IN IF r.mode = DRY_RUN
            THEN node_loop([g EXCEPT !.nodes[i].status = NodeStatus_COMPLETED,
                                     !.execution_log = @ + 1],
                           e, [r EXCEPT !.position = @ + 1, !.completed_nodes = @ + 1])
            ELSE LET g2 == [g EXCEPT !.nodes[i].status = NodeStatus_RUNNING] IN
                 IF g.nodes[i].retry_count <= 0
                 THEN finish(g2, e, [r EXCEPT !.position = @ + 1],
                             r.completed_nodes = Len(g.nodes), Unbound)
                 ELSE [graph |-> g2, engine |-> e,
                       run |-> [r EXCEPT !.position = @ + 1, !.pc = "handler",
                                         !.attempt = 0,
                                         !.invoked = Append(@, node_id)]]

\* execute_graph that starts the graph before it looks at the validation errors
execute_graph_starting_first(g, e, r, mode) ==
    LET validation_errors == validate_graph(g)
        g2 == [g EXCEPT !.status = NodeStatus_RUNNING, !.start_time = TRUE]
    IN IF validation_errors # <<>>
       THEN [graph |-> g2, engine |-> e,
             run |-> [r EXCEPT !.pc = "done", !.mode = mode,
                               !.errors = validation_errors,
                               !.outcome = Returned(ExecutionResult(g, FALSE, 0,
                                                                    "Validation failed"))]]
       ELSE node_loop(g2, [e EXCEPT !.running_graphs = @ \cup {g.id}],
                      [r EXCEPT !.mode = mode,
                                !.execution_order = topological_sort(g2)])

\* execute_graph lines 212-237: validation gate, start, execution order
execute_graph(g, e, r, mode) ==
    LET validation_errors == validate_graph(g) IN
    IF validation_errors # <<>>
    THEN [graph |-> g, engine |-> e,
          run |-> [r EXCEPT !.pc = "done", !.mode = mode,
                            !.errors = validation_errors,
                            !.outcome = Returned(ExecutionResult(g, FALSE, 0,
                                                                 "Validation failed"))]]
    ELSE LET g2 == [g EXCEPT !.status = NodeStatus_RUNNING, !.start_time = TRUE] IN
         node_loop(g2, [e EXCEPT !.running_graphs = @ \cup {g.id}],
                   [r EXCEPT !.mode = mode,
                             !.execution_order = topological_sort(g2)])

\* the node the frame is executing
current(g, r) == node_index(g, r.execution_order[r.position])

\* the handler returned without `completed_nodes += 1` in execute_graph
handler_returns_not_counting(g, e, r) ==
    node_loop([g EXCEPT !.nodes[current(g, r)].status = NodeStatus_COMPLETED,
                        !.execution_log = @ + 1],
              e, [r EXCEPT !.succeeded = @ \cup {r.execution_order[r.position]}])

\* _execute_node lines 337-341 and execute_graph 251-256: the handler returned
handler_returns(g, e, r) ==
    node_loop([g EXCEPT !.nodes[current(g, r)].status = NodeStatus_COMPLETED,
                        !.execution_log = @ + 1],
              e, [r EXCEPT !.completed_nodes = @ + 1,
                           !.succeeded = @ \cup {r.execution_order[r.position]}])

\* _execute_node lines 345-358 and execute_graph 257-262: the handler raised
handler_raises(g, e, r) ==
    IF r.attempt = g.nodes[current(g, r)].retry_count - 1
    THEN finish([g EXCEPT !.nodes[current(g, r)].status = NodeStatus_FAILED,
                          !.execution_log = @ + 1],
                e, r, r.completed_nodes = Len(g.nodes), Unbound)
    ELSE [graph |-> [g EXCEPT !.execution_log = @ + 1], engine |-> e,
          run |-> [r EXCEPT !.pc = "sleep"]]

\* _execute_node: asyncio.sleep(1) is over, the next attempt invokes the handler
node_sleep_over(g, e, r) ==
    [graph |-> g, engine |-> e,
     run |-> [r EXCEPT !.pc = "handler", !.attempt = @ + 1,
                       !.invoked = Append(@, r.execution_order[r.position])]]

\* cancel_execution: the value it returns, the graph and the engine it leaves
cancel_execution(g, e, graph_id) ==
    IF graph_id \in e.running_graphs
    THEN [ret |-> TRUE,
          graph |-> IF graph_id = g.id
                    THEN [g EXCEPT !.status = NodeStatus_FAILED, !.end_time = TRUE]
                    ELSE g,
          engine |-> [e EXCEPT !.running_graphs = @ \ {graph_id}]]
    ELSE [ret |-> FALSE, graph |-> g, engine |-> e]

(***************************************************************************)
(* MCPManager (mcp_manager.py).  The object: config holds the enabled flag *)
(* each server has in the MCPConfig file, settings the global settings the *)
(* manager reads; servers is _servers (name -> enabled flag of its         *)
(* MCPServerConfig); connection_states and health_check_failures are the   *)
(* dictionaries of the same name; multi_mcp and agent are TRUE when the    *)
(* attribute holds an object and FALSE when it is None; health_check_task  *)
(* is the task _health_check_task refers to, 0 for None.  _connections is  *)
(* never written by any method and stays empty.  The manager's             *)
(* _connection_pool is the variable pool.                                  *)
(*                                                                         *)
(* A method that awaits is cut at its awaits.  The frame op holds the      *)
(* method a caller is running: pc "idle", "connect" (inside                *)
(* _connect_all_servers, awaiting execute_with_retry of the connect),      *)
(* "command" (inside execute_command, awaiting execute_with_error_         *)
(* handling), "disconnect" (inside shutdown, awaiting the disconnect),     *)
(* "done".  The awaited connect is one await that returns or    *)
(* raises: execute_with_retry touches nothing of the manager before it     *)
(* ends.                                                                   *)
(***************************************************************************)
CONNECTING == "connecting"
ConnectionState_FAILED == "failed"

default_health_check_interval == 60

True == [src |-> "bool", n |-> 1, msg |-> {}]
False == [src |-> "bool", n |-> 0, msg |-> {}]
NotInitialized == [src |-> "RuntimeError", n |-> 0, msg |-> {"not initialized"}]
AgentContent == [src |-> "agent_content", n |-> 0, msg |-> {}]

MCPManager(config, settings) ==
    [config |-> config,
     settings |-> settings,
     servers |-> <<>>,
     connection_states |-> <<>>,
     health_check_failures |-> <<>>,
     multi_mcp |-> FALSE,
     agent |-> FALSE,
     is_initialized |-> FALSE,
     health_check_task |-> 0]

NewOp == [pc |-> "idle", method |-> "none", arg |-> "", enabled_servers |-> {},
          call |-> NewCall, outcome |-> NoOutcome]

\* the order in which a config file lists its servers
ServerOrder == <<"s1", "s2">>
InOrder(names) == SelectSeq(ServerOrder, LAMBDA n : n \in names)

\* dict.get(name, 0)
GetOr0(map, name) == IF name \in DOMAIN map THEN map[name] ELSE 0

\* MCPManager._load_servers_from_config
load_servers_from_config(m) ==
    [m EXCEPT !.servers = [n \in DOMAIN @ \cup DOMAIN m.config |->
                             IF n \in DOMAIN m.config THEN m.config[n] ELSE @[n]]]

\* MCPManager._connect_all_servers up to its await: nothing to do without an enabled
\* server (awaits FALSE), else every enabled server is marked CONNECTING and a new
\* MultiMCPTools replaces _multi_mcp
connect_all_servers(m) ==
    LET enabled_servers == {n \in DOMAIN m.servers : m.servers[n]} IN
    IF enabled_servers = {}
    THEN [awaits |-> FALSE, enabled_servers |-> {}, manager |-> m]
    ELSE [awaits |-> TRUE, enabled_servers |-> enabled_servers,
          manager |-> [m EXCEPT
              !.connection_states = [n \in DOMAIN @ \cup enabled_servers |->
                                        IF n \in enabled_servers THEN CONNECTING ELSE @[n]],
              !.multi_mcp = TRUE]]

\* the except clause of _connect_all_servers: every enabled server FAILED, one more
\* failure counted for each; the exception is raised again
connect_raises(m, enabled_servers) ==
    [m EXCEPT
        !.connection_states = [n \in DOMAIN @ \cup enabled_servers |->
                                  IF n \in enabled_servers THEN ConnectionState_FAILED ELSE @[n]],
        !.health_check_failures = [n \in DOMAIN @ \cup enabled_servers |->
                                      IF n \in enabled_servers
                                      THEN GetOr0(m.health_check_failures, n) + 1 ELSE @[n]]]

\* the awaited connect returned: for each enabled server in turn CONNECTED,
\* add_connection, failures 0; add_connection raising on a full pool ends in the
\* except clause.  names: the enabled servers still to go
RECURSIVE connect_returns(_, _, _, _)
connect_returns(m, p, names, enabled_servers) ==
    IF names = <<>> THEN [raised |-> FALSE, manager |-> m, pool |-> p]
    ELSE LET name == Head(names)
             m1 == [m EXCEPT !.connection_states = Put(@, name, CONNECTED)] IN
         IF add_connection_full(p)
         THEN [raised |-> TRUE, manager |-> connect_raises(m1, enabled_servers), pool |-> p]
         ELSE connect_returns(
                  [m1 EXCEPT !.health_check_failures = Put(@, name, 0)],
                  add_connection(p, name, TRUE), Tail(names), enabled_servers)

\* MCPManager._create_agent
create_agent(m) ==
    IF ~m.multi_mcp THEN [raised |-> TRUE, manager |-> m]
    ELSE [raised |-> FALSE, manager |-> [m EXCEPT !.agent = TRUE]]

(***************************************************************************)
(* The health-check loops.  hc maps a task slot to the frame of the        *)
(* _health_check_loop coroutine running in it; health_check_task is the    *)
(* slot _health_check_task refers to, 0 for None.  pc: "none" (no task),   *)
(* "sleeping" (asyncio.sleep(interval)), "probe" (awaiting execute_with_   *)
(* error_handling for server), "connect" (a reconnect attempt awaiting the *)
(* connect), "reconnect_sleep" (asyncio.sleep(delay) between attempts),    *)
(* "finished".  rest: the servers the round has still to visit; size:      *)
(* len(_servers) when the iteration began.  probed observes the round: one *)
(* entry per probe made, with the server, whether the probe succeeded,     *)
(* whether the breaker refused it, the failure counter before it, the      *)
(* counter and the state right after the probe was handled, whether        *)
(* _attempt_reconnect_single_server was called, the attempts it began,     *)
(* what it returned and the state it left.                                 *)
(***************************************************************************)
NewLoop == [pc |-> "none", server |-> "", rest |-> <<>>, size |-> 0, attempt |-> 0,
            enabled_servers |-> {}, call |-> NewCall, probed |-> <<>>]

Probe(m0, m1, h, ok) ==
    [server |-> h.server, ok |-> ok, refused |-> ~h.call.admitted,
     before |-> GetOr0(m0.health_check_failures, h.server),
     failures |-> m1.health_check_failures[h.server],
     state |-> m1.connection_states[h.server],
     reconnect |-> FALSE, attempts |-> 0, returned |-> None, left |-> "None"]

\* _attempt_reconnect_single_server returns v
Reconnected(m, h, v) ==
    [h EXCEPT !.probed[Len(h.probed)].returned = v,
              !.probed[Len(h.probed)].left =
                  IF h.server \in DOMAIN m.connection_states
                  THEN m.connection_states[h.server] ELSE "None"]

Active(h) == h.pc \notin {"none", "finished"}

\* MCPManager._start_health_check: a new task in the free slot i
start_health_check(m, loops, i) ==
    IF default_health_check_interval > 0
    THEN [manager |-> [m EXCEPT !.health_check_task = i],
          hc |-> [loops EXCEPT ![i] = [NewLoop EXCEPT !.pc = "sleeping"]]]
    ELSE [manager |-> m, hc |-> loops]

\* `while self._is_initialized` after a round
loop_check(m, h) ==
    [h EXCEPT !.pc = IF m.is_initialized THEN "sleeping" ELSE "finished",
              !.server = "", !.rest = <<>>, !.size = 0, !.call = NewCall,
              !.attempt = 0, !.enabled_servers = {}]

RECURSIVE health_iterate(_, _, _, _)
RECURSIVE reconnect_attempt(_, _, _, _, _)

attempt_failed_one_more(m, p, h, t) ==
    LET m1 == [m EXCEPT !.connection_states = Put(@, h.server, ConnectionState_FAILED)] IN
    IF h.attempt < m.settings.max_reconnect_attempts
    THEN [manager |-> m, pool |-> p, loop |-> [h EXCEPT !.pc = "reconnect_sleep"]]
    ELSE health_iterate(m1, p, Reconnected(m1, h, False), t)

\* the except clause of an attempt of _attempt_reconnect_single_server: sleep before
\* the next attempt, or after the last one mark the server FAILED and return False
attempt_failed(m, p, h, t) ==
    LET m1 == [m EXCEPT !.connection_states = Put(@, h.server, ConnectionState_FAILED)] IN
    IF h.attempt < m.settings.max_reconnect_attempts - 1
    THEN [manager |-> m, pool |-> p, loop |-> [h EXCEPT !.pc = "reconnect_sleep"]]
    ELSE health_iterate(m1, p, Reconnected(m1, h, False), t)

\* attempt a of _attempt_reconnect_single_server up to its await
reconnect_attempt(m, p, h, a, t) ==
    LET m1 == [m EXCEPT !.connection_states = Put(@, h.server, RECONNECTING)]
        c == connect_all_servers(m1)
        h1 == [h EXCEPT !.attempt = a, !.probed[Len(h.probed)].attempts = a + 1] IN
    IF c.awaits
    THEN [manager |-> c.manager, pool |-> p,
          loop |-> [h1 EXCEPT !.pc = "connect", !.enabled_servers = c.enabled_servers]]
    ELSE IF create_agent(c.manager).raised
         THEN attempt_failed(c.manager, p, h1, t)
    ELSE health_iterate(create_agent(c.manager).manager, p,
                        Reconnected(create_agent(c.manager).manager, h1, True), t)

\* MCPManager._attempt_reconnect_single_server
attempt_reconnect_single_server(m, p, h, t) ==
    LET h1 == [h EXCEPT !.probed[Len(h.probed)].reconnect = TRUE]
        m1 == [m EXCEPT !.connection_states = Put(@, h.server, ConnectionState_FAILED)] IN
    IF h.server \notin DOMAIN m.servers THEN health_iterate(m, p, Reconnected(m, h1, False), t)
    ELSE IF m.settings.max_reconnect_attempts <= 0
         THEN health_iterate(m1, p, Reconnected(m1, h1, False), t)
    ELSE reconnect_attempt(m, p, h1, 0, t)

probe_succeeded_keeping_count(m, p, h, t) ==
    LET m1 == [m EXCEPT !.health_check_failures = Put(@, h.server, GetOr0(@, h.server)),
                        !.connection_states = Put(@, h.server, CONNECTED)] IN
    health_iterate(m1, p, [h EXCEPT !.probed = Append(@, Probe(m, m1, h, TRUE))], t)

\* the probe of h.server succeeded
probe_succeeded(m, p, h, t) ==
    LET m1 == [m EXCEPT !.health_check_failures = Put(@, h.server, 0),
                        !.connection_states = Put(@, h.server, CONNECTED)] IN
    health_iterate(m1, p, [h EXCEPT !.probed = Append(@, Probe(m, m1, h, TRUE))], t)

probe_failed_reconnecting_at_three(m, p, h, t) ==
    LET failure_count == GetOr0(m.health_check_failures, h.server) + 1
        m1 == [m EXCEPT
                 !.health_check_failures = Put(@, h.server, failure_count),
                 !.connection_states = Put(@, h.server,
                     IF failure_count >= 3 THEN ConnectionState_FAILED ELSE RECONNECTING)]
        h1 == [h EXCEPT !.probed = Append(@, Probe(m, m1, h, FALSE))] IN
    IF m.settings.auto_reconnect /\ failure_count >= 3
    THEN attempt_reconnect_single_server(m1, p, h1, t)
    ELSE health_iterate(m1, p, h1, t)

\* the probe of h.server raised: count the failure, set the state, reconnect or go on
probe_failed(m, p, h, t) ==
    LET failure_count == GetOr0(m.health_check_failures, h.server) + 1
        m1 == [m EXCEPT
                 !.health_check_failures = Put(@, h.server, failure_count),
                 !.connection_states = Put(@, h.server,
                     IF failure_count >= 3 THEN ConnectionState_FAILED ELSE RECONNECTING)]
        h1 == [h EXCEPT !.probed = Append(@, Probe(m, m1, h, FALSE))] IN
    IF m.settings.auto_reconnect /\ failure_count >= 2
    THEN attempt_reconnect_single_server(m1, p, h1, t)
    ELSE health_iterate(m1, p, h1, t)

\* `for server_name in self._servers` of _perform_health_check, from the next
\* iteration up to the next await; a dictionary that changed size raises
\* RuntimeError, which the loop logs
health_iterate(m, p, h, t) ==
    IF Cardinality(DOMAIN m.servers) # h.size \/ h.rest = <<>>
    THEN [manager |-> m, pool |-> p, loop |-> loop_check(m, h)]
    ELSE LET server_name == Head(h.rest)
             h1 == [h EXCEPT !.server = server_name, !.rest = Tail(@), !.call = NewCall]
             r == execute_with_error_handling(p, server_name, FALSE,
                      RetryConfig(default_max_attempts), t) IN
         IF server_name \notin DOMAIN m.servers \/ ~m.servers[server_name]
         THEN health_iterate(m, p, h1, t)
         ELSE IF r.call.pc = "done"
              THEN probe_failed(m, r.pool, [h1 EXCEPT !.call = r.call], t)
         ELSE [manager |-> m, pool |-> r.pool,
               loop |-> [h1 EXCEPT !.pc = "probe", !.call = r.call]]

\* MCPManager._perform_health_check when the sleep of the loop is over
perform_health_check(m, p, h, t) ==
    IF ~m.multi_mcp
    THEN [manager |-> m, pool |-> p, loop |-> loop_check(m, [h EXCEPT !.probed = <<>>])]
    ELSE health_iterate(m, p,
             [h EXCEPT !.rest = InOrder(DOMAIN m.servers),
                       !.size = Cardinality(DOMAIN m.servers),
                       !.probed = <<>>], t)

\* a step of the awaited execute_with_error_handling of a probe left the call r.call
after_probe_step(m, r, h, t) ==
    LET h1 == [h EXCEPT !.call = r.call] IN
    IF r.call.pc # "done" THEN [manager |-> m, pool |-> r.pool, loop |-> h1]
    ELSE IF r.call.outcome.kind = "returned" THEN probe_succeeded(m, r.pool, h1, t)
    ELSE probe_failed(m, r.pool, h1, t)

\* the awaited connect of a reconnect attempt returned
reconnect_connect_returns(m, p, h, t) ==
    LET c == connect_returns(m, p, InOrder(h.enabled_servers), h.enabled_servers) IN
    IF c.raised \/ create_agent(c.manager).raised
    THEN attempt_failed(c.manager, c.pool, h, t)
    ELSE health_iterate(create_agent(c.manager).manager, c.pool,
                        Reconnected(create_agent(c.manager).manager, h, True), t)

\* the awaited connect of a reconnect attempt raised
reconnect_connect_raises(m, p, h, t) ==
    attempt_failed(connect_raises(m, h.enabled_servers), p, h, t)

(***************************************************************************)
(* The methods a caller runs.  Each operator gives the manager, the pool,  *)
(* the loops and the caller's frame at the next await or at the return.    *)
(***************************************************************************)
op_returns(f, v) == [f EXCEPT !.pc = "done", !.outcome = Returned(v)]
op_raises(f, e) == [f EXCEPT !.pc = "done", !.outcome = Raised(e)]

FreeSlot(loops) == CHOOSE i \in DOMAIN loops :
    /\ ~Active(loops[i])
    /\ \A j \in DOMAIN loops : ~Active(loops[j]) => i <= j

\* what the method of frame f does once _connect_all_servers has returned (ok) or
\* raised (~ok): the rest of initialize, enable_server, disable_server or
\* reconnect_server
after_connect(m, p, loops, f, ok) ==
    LET a == create_agent(m)
        s == start_health_check(a.manager, loops, FreeSlot(loops)) IN
    IF ~ok
    THEN [manager |-> m, pool |-> p, hc |-> loops, op |-> op_returns(f, False)]
    ELSE IF f.method = "reconnect_server"
         THEN [manager |-> m, pool |-> p, hc |-> loops, op |-> op_returns(f, True)]
    ELSE IF a.raised
         THEN [manager |-> m, pool |-> p, hc |-> loops, op |-> op_returns(f, False)]
    ELSE IF f.method = "initialize"
         THEN [manager |-> [s.manager EXCEPT !.is_initialized = TRUE], pool |-> p,
               hc |-> s.hc, op |-> op_returns(f, True)]
    ELSE [manager |-> a.manager, pool |-> p, hc |-> loops, op |-> op_returns(f, True)]

\* a method calls _connect_all_servers
call_connect(m, p, loops, f) ==
    LET c == connect_all_servers(m) IN
    IF c.awaits
    THEN [manager |-> c.manager, pool |-> p, hc |-> loops,
          op |-> [f EXCEPT !.pc = "connect", !.enabled_servers = c.enabled_servers]]
    ELSE after_connect(c.manager, p, loops, f, TRUE)

\* the awaited connect of the caller's method returned
op_connect_returns(m, p, loops, f) ==
    LET c == connect_returns(m, p, InOrder(f.enabled_servers), f.enabled_servers) IN
    after_connect(c.manager, c.pool, loops, f, ~c.raised)

\* the awaited connect of the caller's method raised
op_connect_raises(m, p, loops, f) ==
    after_connect(connect_raises(m, f.enabled_servers), p, loops, f, FALSE)

\* MCPManager.initialize
initialize(m, p, loops) ==
    call_connect(load_servers_from_config(m), p, loops,
                 [NewOp EXCEPT !.method = "initialize"])

\* MCPManager.enable_server (enabled TRUE) and disable_server (enabled FALSE)
set_enabled(m, p, loops, method, name, enabled) ==
    LET f == [NewOp EXCEPT !.method = method, !.arg = name]
        m1 == [m EXCEPT !.servers[name] = enabled,
                        !.config = IF name \in DOMAIN @ THEN Put(@, name, enabled) ELSE @] IN
    IF name \notin DOMAIN m.servers
    THEN [manager |-> m, pool |-> p, hc |-> loops, op |-> op_returns(f, False)]
    ELSE IF m.is_initialized THEN call_connect(m1, p, loops, f)
    ELSE [manager |-> m1, pool |-> p, hc |-> loops, op |-> op_returns(f, True)]

enable_server(m, p, loops, name) == set_enabled(m, p, loops, "enable_server", name, TRUE)

disable_server(m, p, loops, name) == set_enabled(m, p, loops, "disable_server", name, FALSE)

\* MCPManager.remove_server
remove_server(m, p, loops, name) ==
    LET f == [NewOp EXCEPT !.method = "remove_server", !.arg = name] IN
    IF name \in DOMAIN m.servers
    THEN [manager |-> [m EXCEPT !.servers = [n \in DOMAIN @ \ {name} |-> @[n]]],
          pool |-> p, hc |-> loops, op |-> op_returns(f, True)]
    ELSE [manager |-> m, pool |-> p, hc |-> loops, op |-> op_returns(f, False)]

\* MCPManager.reconnect_server
reconnect_server(m, p, loops, name) ==
    LET f == [NewOp EXCEPT !.method = "reconnect_server", !.arg = name] IN
    IF name \notin DOMAIN m.servers
    THEN [manager |-> m, pool |-> p, hc |-> loops, op |-> op_returns(f, False)]
    ELSE call_connect(m, p, loops, f)

\* a step of the awaited execute_with_error_handling of execute_command left the
\* call r.call: its result is returned, its exception logged and raised again
after_command_step(m, r, loops, f) ==
    [manager |-> m, pool |-> r.pool, hc |-> loops,
     op |-> IF r.call.pc # "done" THEN [f EXCEPT !.pc = "command", !.call = r.call]
            ELSE [f EXCEPT !.call = r.call, !.pc = "done", !.outcome = r.call.outcome]]

execute_command_without_fallback(m, p, loops, t) ==
    LET f == [NewOp EXCEPT !.method = "execute_command"] IN
    IF ~m.is_initialized \/ ~m.agent
    THEN [manager |-> m, pool |-> p, hc |-> loops, op |-> op_raises(f, NotInitialized)]
    ELSE after_command_step(m,
             execute_with_error_handling(p, "agent_execution", FALSE,
                 RetryConfig(default_max_attempts), t), loops, f)

\* MCPManager.execute_command up to its await
execute_command(m, p, loops, t) ==
    LET f == [NewOp EXCEPT !.method = "execute_command"] IN
    IF ~m.is_initialized \/ ~m.agent
    THEN [manager |-> m, pool |-> p, hc |-> loops, op |-> op_raises(f, NotInitialized)]
    ELSE after_command_step(m,
             execute_with_error_handling(p, "agent_execution", TRUE,
                 RetryConfig(default_max_attempts), t), loops, f)

\* the attributes shutdown clears
shutdown_clear(m) ==
    [m EXCEPT !.multi_mcp = FALSE, !.agent = FALSE, !.is_initialized = FALSE,
              !.health_check_task = 0]

\* MCPManager.shutdown up to the await of the disconnect: the task is cancelled
\* and awaited, which ends its loop where it stands
shutdown(m, p, loops) ==
    LET f == [NewOp EXCEPT !.method = "shutdown"]
        i == m.health_check_task
        after == IF i # 0 /\ Active(loops[i])
                 THEN [loops EXCEPT ![i].pc = "finished"] ELSE loops IN
    IF m.multi_mcp
    THEN [manager |-> m, pool |-> p, hc |-> after, op |-> [f EXCEPT !.pc = "disconnect"]]
    ELSE [manager |-> shutdown_clear(m), pool |-> p, hc |-> after,
          op |-> op_returns(f, None)]

\* the awaited disconnect is over (it returned, or raised and was logged)
disconnect_over(m, p, loops, f) ==
    [manager |-> shutdown_clear(m), pool |-> p, hc |-> loops, op |-> op_returns(f, None)]

(***************************************************************************)
(* Parked (just constructed) values of each component.                     *)
(***************************************************************************)
NoCall == [op |-> "none", ret |-> TRUE, elapsed |-> 0,
           before |-> CONNECTED, failRun |-> 0, halfOpenSuccesses |-> 0,
           halfOpenAdmitted |-> 0]

ParkedBreaker ==
    /\ breaker = CircuitBreaker(CircuitBreakerConfig(default_failure_threshold,
                     default_recovery_timeout, default_half_open_max_calls))
    /\ bh = NoCall

ParkedRetry ==
    /\ retry_config = RetryConfig(default_max_attempts)
    /\ classifier = TRUE
    /\ retry = NewRetry

\* the concurrent callers of execute_with_error_handling (a command and a
\* health-check probe, say)
Callers == {"c1", "c2"}

ParkedHandler ==
    /\ pool = ConnectionPool(manager_max_connections)
    /\ calls = [c \in Callers |-> NewCall]
    /\ started = 0

\* the task ids create_task hands out
TaskIds == {"t1", "t2"}

\* returned: the last step of the orchestrator was a get_stats call
NoStatsCall == [returned |-> FALSE]

ParkedTasks ==
    /\ tasks = <<>>
    /\ units = [id \in TaskIds |-> NoUnit]
    /\ stats = Stats
    /\ gs = NoStatsCall
    /\ paths = [id \in TaskIds |-> NewPath]

ParkedGraph ==
    /\ graph = ActionGraph("g", <<>>, <<>>)
    /\ engine = ActionGraphEngine
    /\ run = NewRun

DefaultSettings == [auto_reconnect |-> TRUE, max_reconnect_attempts |-> MaxReconnectAttempts]

NoPoolCall == [op |-> "none", name |-> "", raised |-> FALSE,
               before |-> ConnectionPool(manager_max_connections)]

ParkedManager ==
    /\ manager = MCPManager(<<>>, DefaultSettings)
    /\ op = NewOp
    /\ hc = [i \in {1} |-> NewLoop]
    /\ ph = NoPoolCall

(***************************************************************************)
(* SpecBreaker: one breaker, any configuration within the bounds, driven   *)
(* by can_execute / record_success / record_failure while time passes.     *)
(* bh observes each call: which method, what it returned, the state it was *)
(* called in, the time since last_failure_time, the run of record_failure  *)
(* calls since the last record_success, the record_success calls since     *)
(* HalfOpen was entered, and the can_execute calls that returned True      *)
(* since HalfOpen was entered, the entering one included (counted up to    *)
(* half_open_max_calls + 1).                                               *)
(***************************************************************************)
InitBreaker ==
    /\ now = 0
    /\ \E ft \in 1..MaxThreshold, rt \in 0..MaxTimeout, hm \in 1..MaxHalfOpen :
          breaker = CircuitBreaker(CircuitBreakerConfig(ft, rt, hm))
    /\ bh = NoCall
    /\ ParkedRetry /\ ParkedHandler /\ ParkedTasks /\ ParkedGraph /\ ParkedManager

Tick ==
    /\ now < MaxNow
    /\ now' = now + 1
    /\ bh' = [bh EXCEPT !.op = "tick", !.before = breaker.state]
    /\ UNCHANGED <<breaker, retryVars, handlerVars, taskVars, graphVars, managerVars>>

CallCanExecute ==
    /\ breaker' = can_execute(breaker, now).breaker
    /\ bh' = [bh EXCEPT !.op = "can_execute",
                        !.ret = can_execute(breaker, now).ret,
                        !.elapsed = now - breaker.last_failure_time,
                        !.before = breaker.state,
                        !.halfOpenSuccesses =
                            IF breaker'.state = RECONNECTING /\ breaker.state = CIRCUIT_OPEN
                            THEN 0 ELSE @,
                        !.halfOpenAdmitted =
                            IF breaker'.state = RECONNECTING /\ breaker.state = CIRCUIT_OPEN
                            THEN 1
                            ELSE IF breaker.state = RECONNECTING /\ can_execute(breaker, now).ret
                                    /\ @ <= breaker.config.half_open_max_calls
                                 THEN @ + 1 ELSE @]
    /\ UNCHANGED <<now, retryVars, handlerVars, taskVars, graphVars, managerVars>>

CallRecordSuccess ==
    /\ breaker' = record_success(breaker)
    /\ bh' = [bh EXCEPT !.op = "record_success",
                        !.before = breaker.state,
                        !.failRun = 0,
                        !.halfOpenSuccesses =
                            IF breaker.state = RECONNECTING THEN @ + 1 ELSE @]
    /\ UNCHANGED <<now, retryVars, handlerVars, taskVars, graphVars, managerVars>>

CallRecordFailure ==
    /\ breaker.failure_count < MaxFailures
    /\ breaker' = record_failure(breaker, now)
    /\ bh' = [bh EXCEPT !.op = "record_failure",
                        !.before = breaker.state,
                        !.failRun = @ + 1]
    /\ UNCHANGED <<now, retryVars, handlerVars, taskVars, graphVars, managerVars>>

NextBreaker ==
    \/ Tick
    \/ CallCanExecute
    \/ CallRecordSuccess
    \/ CallRecordFailure

SpecBreaker == InitBreaker /\ [][NextBreaker]_vars

(***************************************************************************)
(* SpecRetry: one execute_with_retry call, for every max_attempts within   *)
(* the bound, with and without an error_classifier, against an operation   *)
(* that returns or raises any of Messages at each invocation.              *)
(***************************************************************************)
InitRetry ==
    /\ now = 0
    /\ \E n \in 0..MaxAttempts : retry_config = RetryConfig(n)
    /\ classifier \in BOOLEAN
    /\ retry = NewRetry
    /\ ParkedBreaker /\ ParkedHandler /\ ParkedTasks /\ ParkedGraph /\ ParkedManager

RetryCall ==
    /\ retry.pc = "idle"
    /\ retry' = execute_with_retry(retry_config)
    /\ UNCHANGED <<now, retry_config, classifier, breakerVars, handlerVars, taskVars, graphVars, managerVars>>

OperationReturns ==
    /\ retry.pc = "in_op"
    /\ retry' = operation_returns(retry, OpResult(retry.invocations))
    /\ UNCHANGED <<now, retry_config, classifier, breakerVars, handlerVars, taskVars, graphVars, managerVars>>

OperationRaises ==
    /\ retry.pc = "in_op"
    /\ \E m \in Messages :
          retry' = operation_raises(retry, retry_config, classifier,
                                    OpError(retry.invocations, m))
    /\ UNCHANGED <<now, retry_config, classifier, breakerVars, handlerVars, taskVars, graphVars, managerVars>>

SleepOver ==
    /\ retry.pc = "sleep"
    /\ retry' = sleep_over(retry, retry_config)
    /\ UNCHANGED <<now, retry_config, classifier, breakerVars, handlerVars, taskVars, graphVars, managerVars>>

NextRetry ==
    \/ RetryCall
    \/ OperationReturns
    \/ OperationRaises
    \/ SleepOver

SpecRetry == InitRetry /\ [][NextRetry]_vars

(***************************************************************************)
(* SpecHandler: execute_with_error_handling calls from concurrent callers  *)
(* on a pool that holds the connection "server1"; the name                 *)
(* "agent_execution" (mcp_manager.py:345) has no connection in the pool.   *)
(* The pool starts as 0 to failure_threshold earlier failed calls on       *)
(* "server1" have left it, so the breaker starts Closed or Open.  The      *)
(* operation and the fallback return or raise at will; steps are the code  *)
(* between two awaits.                                                     *)
(***************************************************************************)
Names == {"server1", "agent_execution"}

\* the operation's failures: unclassified, authentication, timeout
HandlerMessages == {{}, {"auth"}, {"timeout"}}

\* the pool after k calls on `name` failed at time 0
RECURSIVE AfterFailedCalls(_, _, _)
AfterFailedCalls(p, name, k) ==
    IF k = 0 THEN p
    ELSE record_operation_result(AfterFailedCalls(p, name, k - 1), name, FALSE,
                                 UNKNOWN_ERROR, 0)

InitHandler ==
    /\ now = 0
    /\ \E k \in 0..default_failure_threshold :
          pool = AfterFailedCalls(
                    add_connection(ConnectionPool(manager_max_connections),
                                   "server1", "multi_mcp"),
                    "server1", k)
    /\ calls = [c \in Callers |-> NewCall]
    /\ started = 0
    /\ \E n \in 0..HandlerMaxAttempts : retry_config = RetryConfig(n)
    /\ classifier = TRUE
    /\ retry = NewRetry
    /\ ParkedBreaker /\ ParkedTasks /\ ParkedGraph /\ ParkedManager

HandlerTick ==
    /\ now < MaxHandlerNow
    /\ now' = now + TickSeconds
    /\ UNCHANGED <<breakerVars, retryVars, handlerVars, taskVars, graphVars, managerVars>>

Step(c, r) ==
    /\ calls' = [calls EXCEPT ![c] = r.call]
    /\ pool' = r.pool

HandlerCall(c) ==
    /\ calls[c].pc \in {"idle", "done"}
    /\ started < MaxCalls
    /\ started' = started + 1
    /\ \E name \in Names, fallback \in BOOLEAN :
          Step(c, execute_with_error_handling(pool, name, fallback, retry_config, now))
    /\ UNCHANGED <<now, breakerVars, retryVars, taskVars, graphVars, managerVars>>

HandlerOperationReturns(c) ==
    /\ calls[c].pc = "retry" /\ calls[c].retry.pc = "in_op"
    /\ Step(c, after_retry_step(calls[c], pool,
                 operation_returns(calls[c].retry, OpResult(calls[c].retry.invocations)),
                 now))
    /\ UNCHANGED <<now, started, breakerVars, retryVars, taskVars, graphVars, managerVars>>

HandlerOperationRaises(c) ==
    /\ calls[c].pc = "retry" /\ calls[c].retry.pc = "in_op"
    /\ \E m \in HandlerMessages :
          Step(c, after_retry_step(calls[c], pool,
                     operation_raises(calls[c].retry, retry_config, TRUE,
                                      OpError(calls[c].retry.invocations, m)),
                     now))
    /\ UNCHANGED <<now, started, breakerVars, retryVars, taskVars, graphVars, managerVars>>

HandlerSleepOver(c) ==
    /\ calls[c].pc = "retry" /\ calls[c].retry.pc = "sleep"
    /\ Step(c, after_retry_step(calls[c], pool, sleep_over(calls[c].retry, retry_config), now))
    /\ UNCHANGED <<now, started, breakerVars, retryVars, taskVars, graphVars, managerVars>>

FallbackReturns(c) ==
    /\ calls[c].pc \in {"fallback_unavailable", "fallback_after_failure"}
    /\ calls' = [calls EXCEPT ![c] = fallback_returns(calls[c], FallbackResult)]
    /\ UNCHANGED <<now, pool, started, breakerVars, retryVars, taskVars, graphVars, managerVars>>

FallbackRaises(c) ==
    /\ calls[c].pc \in {"fallback_unavailable", "fallback_after_failure"}
    /\ calls' = [calls EXCEPT ![c] = fallback_raises(calls[c], FallbackError({}))]
    /\ UNCHANGED <<now, pool, started, breakerVars, retryVars, taskVars, graphVars, managerVars>>

NextHandler ==
    \/ HandlerTick
    \/ \E c \in Callers :
          \/ HandlerCall(c)
          \/ HandlerOperationReturns(c)
          \/ HandlerOperationRaises(c)
          \/ HandlerSleepOver(c)
          \/ FallbackReturns(c)
          \/ FallbackRaises(c)

SpecHandler == InitHandler /\ [][NextHandler]_vars

(***************************************************************************)
(* SpecTask: create_task, the execution units it schedules, cancel_task    *)
(* and shutdown, interleaved at the awaits.  Every collaborator (parser,   *)
(* risk engine, policy engine, skill library, execution) returns or raises *)
(* at will.                                                                *)
(***************************************************************************)
InitTask ==
    /\ now = 0
    /\ tasks = <<>>
    /\ units = [id \in TaskIds |-> NoUnit]
    /\ stats = Stats
    /\ gs = NoStatsCall
    /\ paths = [id \in TaskIds |-> NewPath]
    /\ ParkedBreaker /\ ParkedRetry /\ ParkedHandler /\ ParkedGraph /\ ParkedManager

Advance(id, r) ==
    /\ tasks' = [tasks EXCEPT ![id] = r.task]
    /\ units' = [units EXCEPT ![id] = r.unit]

\* create_task: a Pending TaskResult and a scheduled execution unit
CreateTask(id) ==
    /\ id \notin DOMAIN tasks
    /\ \E rc \in 0..MaxRetryCount :
          units' = [units EXCEPT ![id] = [NoUnit EXCEPT !.pc = "scheduled",
                                                        !.retry_count = rc,
                                                        !.request_retry_count = rc]]
    /\ tasks' = Put(tasks, id, TaskResult)
    /\ stats' = [stats EXCEPT !.total_tasks = @ + 1]
    /\ gs' = NoStatsCall
    /\ UNCHANGED <<now, paths, breakerVars, retryVars, handlerVars, graphVars, managerVars>>

\* the scheduled unit gets to run
UnitStarts(id) ==
    /\ units[id].pc = "scheduled"
    /\ Advance(id, begin_execute_task(tasks[id], units[id]))
    /\ gs' = NoStatsCall
    /\ UNCHANGED <<now, paths, stats, breakerVars, retryVars, handlerVars, graphVars, managerVars>>

\* the awaited stage raises
StageRaises(id) ==
    /\ units[id].pc \in {"parse", "risk", "policy", "decide", "execute"}
    /\ Advance(id, except_clause(tasks[id], units[id], units[id].pc))
    /\ gs' = NoStatsCall
    /\ UNCHANGED <<now, paths, stats, breakerVars, retryVars, handlerVars, graphVars, managerVars>>

ParseReturns(id) ==
    /\ units[id].pc = "parse"
    /\ units' = [units EXCEPT ![id].pc = "risk"]
    /\ gs' = NoStatsCall
    /\ UNCHANGED <<now, paths, stats, tasks, breakerVars, retryVars, handlerVars, graphVars, managerVars>>

RiskReturns(id) ==
    /\ units[id].pc = "risk"
    /\ units' = [units EXCEPT ![id].pc = "policy"]
    /\ gs' = NoStatsCall
    /\ UNCHANGED <<now, paths, stats, tasks, breakerVars, retryVars, handlerVars, graphVars, managerVars>>

\* check_policy returns; `if not policy_check.allowed: raise TaskExecutionError`
PolicyReturns(id) ==
    /\ units[id].pc = "policy"
    /\ \E allowed \in BOOLEAN :
          IF allowed
          THEN /\ units' = [units EXCEPT ![id].pc = "decide"]
               /\ UNCHANGED tasks
          ELSE Advance(id, except_clause(tasks[id], units[id], "policy_violation"))
    /\ gs' = NoStatsCall
    /\ UNCHANGED <<now, paths, stats, breakerVars, retryVars, handlerVars, graphVars, managerVars>>

\* _decide_execution_strategy returns, on a skill match of some confidence
DecideReturns(id) ==
    /\ units[id].pc = "decide"
    /\ \E confidence \in {-1, 80, 85, 86} :
          units' = [units EXCEPT ![id].pc = "execute", ![id].mode = decide_mode(confidence)]
    /\ gs' = NoStatsCall
    /\ UNCHANGED <<now, paths, stats, tasks, breakerVars, retryVars, handlerVars, graphVars, managerVars>>

ExecuteReturns(id) ==
    /\ units[id].pc = "execute"
    /\ Advance(id, record_result(tasks[id], units[id]))
    /\ gs' = NoStatsCall
    /\ UNCHANGED <<now, paths, stats, breakerVars, retryVars, handlerVars, graphVars, managerVars>>

\* asyncio.sleep(1) is over: `await self._execute_task(task_id, request)`
RetrySleepOver(id) ==
    /\ units[id].pc = "sleep"
    /\ Advance(id, begin_execute_task(tasks[id], units[id]))
    /\ gs' = NoStatsCall
    /\ UNCHANGED <<now, paths, stats, breakerVars, retryVars, handlerVars, graphVars, managerVars>>

CancelTask(id) ==
    /\ tasks' = cancel_task(tasks, id).tasks
    /\ gs' = NoStatsCall
    /\ UNCHANGED <<now, paths, stats, units, breakerVars, retryVars, handlerVars, graphVars, managerVars>>

Shutdown ==
    /\ tasks' = shutdown_tasks(tasks)
    /\ gs' = NoStatsCall
    /\ UNCHANGED <<now, paths, stats, units, breakerVars, retryVars, handlerVars, graphVars, managerVars>>

\* get_stats is called, at any moment
GetStats ==
    /\ stats' = get_stats(tasks, stats)
    /\ gs' = [returned |-> TRUE]
    /\ UNCHANGED <<now, paths, tasks, units, breakerVars, retryVars, handlerVars, graphVars, managerVars>>

NextTask ==
    \/ \E id \in TaskIds :
          \/ CreateTask(id)
          \/ UnitStarts(id)
          \/ StageRaises(id)
          \/ ParseReturns(id)
          \/ RiskReturns(id)
          \/ PolicyReturns(id)
          \/ DecideReturns(id)
          \/ ExecuteReturns(id)
          \/ RetrySleepOver(id)
    \/ \E id \in TaskIds \cup {"invalid_job_id"} : CancelTask(id)
    \/ Shutdown

SpecTask == InitTask /\ [][NextTask]_vars

(***************************************************************************)
(* SpecStrategy: the strategy stages of the pipeline attempts of each      *)
(* task, for skill matches of every confidence around the threshold and    *)
(* for no match; every awaited collaborator returns or raises at will.     *)
(***************************************************************************)
Confidences == {-1, 0, 85, 86, 100}

\* an attempt of _execute_task has passed the policy check
StrategyBegins(id) ==
    /\ paths[id].pc \in {"idle", "done"}
    /\ paths[id].runs <= MaxRetryCount
    /\ paths' = [paths EXCEPT ![id] = [NewPath EXCEPT !.pc = "find_skill",
                                                      !.runs = paths[id].runs + 1]]
    /\ UNCHANGED <<now, tasks, units, stats, gs, breakerVars, retryVars, handlerVars,
                   graphVars, managerVars>>

FindSkillReturns(id) ==
    /\ paths[id].pc = "find_skill"
    /\ \E confidence \in Confidences :
          paths' = [paths EXCEPT ![id] =
                       execute_strategy(decide_execution_strategy(paths[id], confidence))]
    /\ UNCHANGED <<now, tasks, units, stats, gs, breakerVars, retryVars, handlerVars,
                   graphVars, managerVars>>

ExecuteSkillReturns(id) ==
    /\ paths[id].pc = "execute_skill"
    /\ paths' = [paths EXCEPT ![id].pc = "done", ![id].outcome = "returned"]
    /\ UNCHANGED <<now, tasks, units, stats, gs, breakerVars, retryVars, handlerVars,
                   graphVars, managerVars>>

ExploreReturns(id) ==
    /\ paths[id].pc = "explore"
    /\ paths' = [paths EXCEPT ![id] = explore_returns(paths[id])]
    /\ UNCHANGED <<now, tasks, units, stats, gs, breakerVars, retryVars, handlerVars,
                   graphVars, managerVars>>

ExecuteGraphReturns(id) ==
    /\ paths[id].pc = "execute_graph"
    /\ \E success, fast \in BOOLEAN :
          paths' = [paths EXCEPT ![id] = execute_graph_returns(paths[id], success, fast)]
    /\ UNCHANGED <<now, tasks, units, stats, gs, breakerVars, retryVars, handlerVars,
                   graphVars, managerVars>>

\* the awaited collaborator raises
PathRaises(id) ==
    /\ paths[id].pc \in {"find_skill", "execute_skill", "explore", "execute_graph"}
    /\ paths' = [paths EXCEPT ![id].pc = "done", ![id].outcome = "raised"]
    /\ UNCHANGED <<now, tasks, units, stats, gs, breakerVars, retryVars, handlerVars,
                   graphVars, managerVars>>

NextStrategy ==
    \E id \in TaskIds :
       \/ StrategyBegins(id)
       \/ FindSkillReturns(id)
       \/ ExecuteSkillReturns(id)
       \/ ExploreReturns(id)
       \/ ExecuteGraphReturns(id)
       \/ PathRaises(id)

SpecStrategy == InitTask /\ [][NextStrategy]_vars

\* SpecTask with get_stats calls between any two steps
NextStats ==
    \/ NextTask
    \/ GetStats

SpecStats == InitTask /\ [][NextStats]_vars

\* The event loop runs every unit that is ready, and every awaited
\* collaborator and every asyncio.sleep(1) eventually returns or raises.
UnitStep(id) ==
    \/ UnitStarts(id)
    \/ StageRaises(id)
    \/ ParseReturns(id)
    \/ RiskReturns(id)
    \/ PolicyReturns(id)
    \/ DecideReturns(id)
    \/ ExecuteReturns(id)
    \/ RetrySleepOver(id)

\* One task, its unit, and cancel_task and shutdown calls at any moment.
NextOneTask ==
    \/ CreateTask("t1")
    \/ UnitStep("t1")
    \/ \E id \in {"t1", "invalid_job_id"} : CancelTask(id)
    \/ Shutdown

SpecTaskLive == InitTask /\ [][NextOneTask]_vars /\ WF_vars(UnitStep("t1"))


(***************************************************************************)
(* Graphs handed to the engine.                                            *)
(***************************************************************************)
GraphNodeIds == {"a", "b", "c"}
FieldValues == {NoField, "", "v"}

SeqsUpTo(S, n) == UNION {[1..k -> S] : k \in 0..n}

\* lists of distinct node ids, and lists of edges between node ids
IdLists(max_nodes) ==
    {ids \in SeqsUpTo(GraphNodeIds, max_nodes) :
        Cardinality({ids[i] : i \in 1..Len(ids)}) = Len(ids)}
EdgeLists(max_edges) ==
    SeqsUpTo({ActionEdge(f, t) : f, t \in GraphNodeIds}, max_edges)

\* graphs of Wait nodes (no required field) with every shape of edges,
\* including edges from or to an id that is not a node of the graph
StructureGraphs(max_nodes, max_edges) ==
    {ActionGraph("g",
         [i \in 1..Len(ids) |->
             ActionNode(ids[i], WAIT, NoField, NoField, NoField, default_node_retry_count)],
         edges) : ids \in IdLists(max_nodes), edges \in EdgeLists(max_edges)}

NodesOf(id) ==
    {ActionNode(id, type, locator, text, url, default_node_retry_count) :
        type \in NodeType, locator \in FieldValues, text \in FieldValues,
        url \in FieldValues}

\* graphs of one or two nodes of every type and every filling of the optional
\* fields, the second node with the id of the first or another
FieldGraphs(first, second) ==
    {ActionGraph("g", <<n1>>, <<>>) : n1 \in NodesOf(first)}
    \cup {ActionGraph("g", <<n1, n2>>, <<>>) :
             n1 \in NodesOf(first), n2 \in NodesOf(first) \cup NodesOf(second)}

\* the nodes of an executed graph: Navigate(url), Click(locator), Assert(locator)
ExecNode(id, retry_count) ==
    IF id = "a" THEN ActionNode(id, NAVIGATE, NoField, NoField, "v", retry_count)
    ELSE IF id = "b" THEN ActionNode(id, CLICK, "v", NoField, NoField, retry_count)
    ELSE ActionNode(id, ASSERT, "v", NoField, NoField, retry_count)

\* a chain listed last node first, a fork, a two-node cycle, a self-loop, two
\* unconnected nodes, the empty graph, and an edge without nodes
ExecShapes ==
    {[ids |-> <<"c", "b", "a">>, edges |-> <<ActionEdge("a", "b"), ActionEdge("b", "c")>>],
     [ids |-> <<"a", "b", "c">>, edges |-> <<ActionEdge("a", "b"), ActionEdge("a", "c")>>],
     [ids |-> <<"a", "b">>, edges |-> <<ActionEdge("a", "b"), ActionEdge("b", "a")>>],
     [ids |-> <<"a">>, edges |-> <<ActionEdge("a", "a")>>],
     [ids |-> <<"a", "b">>, edges |-> <<>>],
     [ids |-> <<>>, edges |-> <<>>],
     [ids |-> <<>>, edges |-> <<ActionEdge("a", "b")>>]}

ExecGraphs(max_retry) ==
    {ActionGraph("g",
         [i \in 1..Len(shape.ids) |-> ExecNode(shape.ids[i], rc[shape.ids[i]])],
         shape.edges) :
        shape \in ExecShapes, rc \in [GraphNodeIds -> 0..max_retry]}
    \cup {ActionGraph("g", <<ActionNode("a", NAVIGATE, NoField, NoField, NoField,
                                         default_node_retry_count)>>, <<>>)}

(***************************************************************************)
(* SpecValidate: validate_graph, and _topological_sort on the graphs it    *)
(* accepts, applied to every graph of StructureGraphs and FieldGraphs.     *)
(* run.pc: "idle", "validated" (run.errors holds the result), "sorted"     *)
(* (run.execution_order holds the result).                                 *)
(***************************************************************************)
InitValidate ==
    /\ now = 0
    /\ graph \in StructureGraphs(MaxNodes, MaxEdges) \cup FieldGraphs("a", "b")
    /\ engine = ActionGraphEngine
    /\ run = NewRun
    /\ ParkedBreaker /\ ParkedRetry /\ ParkedHandler /\ ParkedTasks /\ ParkedManager

CallValidateGraph ==
    /\ run.pc = "idle"
    /\ run' = [run EXCEPT !.pc = "validated", !.errors = validate_graph(graph)]
    /\ UNCHANGED <<now, graph, engine, breakerVars, retryVars, handlerVars, taskVars, managerVars>>

CallTopologicalSort ==
    /\ run.pc = "validated"
    /\ run.errors = <<>>
    /\ run' = [run EXCEPT !.pc = "sorted", !.execution_order = topological_sort(graph)]
    /\ UNCHANGED <<now, graph, engine, breakerVars, retryVars, handlerVars, taskVars, managerVars>>

NextValidate == CallValidateGraph \/ CallTopologicalSort

SpecValidate == InitValidate /\ [][NextValidate]_vars

(***************************************************************************)
(* SpecGraph: one execute_graph call on a graph of ExecGraphs, in Normal   *)
(* or DryRun mode, with cancel_execution called at any await.  Node        *)
(* handlers return or raise at will.                                       *)
(***************************************************************************)
InitGraph ==
    /\ now = 0
    /\ graph \in ExecGraphs(MaxNodeRetry)
    /\ engine = ActionGraphEngine
    /\ run = NewRun
    /\ ParkedBreaker /\ ParkedRetry /\ ParkedHandler /\ ParkedTasks /\ ParkedManager

ApplyRun(st) ==
    /\ graph' = st.graph
    /\ engine' = st.engine
    /\ run' = st.run

ExecuteGraph ==
    /\ run.pc = "idle"
    /\ \E mode \in {NORMAL, DRY_RUN} : ApplyRun(execute_graph(graph, engine, run, mode))
    /\ UNCHANGED <<now, breakerVars, retryVars, handlerVars, taskVars, managerVars>>

NodeHandlerReturns ==
    /\ run.pc = "handler"
    /\ ApplyRun(handler_returns(graph, engine, run))
    /\ UNCHANGED <<now, breakerVars, retryVars, handlerVars, taskVars, managerVars>>

NodeHandlerRaises ==
    /\ run.pc = "handler"
    /\ ApplyRun(handler_raises(graph, engine, run))
    /\ UNCHANGED <<now, breakerVars, retryVars, handlerVars, taskVars, managerVars>>

NodeSleepOver ==
    /\ run.pc = "sleep"
    /\ ApplyRun(node_sleep_over(graph, engine, run))
    /\ UNCHANGED <<now, breakerVars, retryVars, handlerVars, taskVars, managerVars>>

CancelExecution(graph_id) ==
    /\ graph' = cancel_execution(graph, engine, graph_id).graph
    /\ engine' = cancel_execution(graph, engine, graph_id).engine
    /\ run' = [run EXCEPT !.cancelled = @ \/ cancel_execution(graph, engine, graph_id).ret]
    /\ UNCHANGED <<now, breakerVars, retryVars, handlerVars, taskVars, managerVars>>

NextGraph ==
    \/ ExecuteGraph
    \/ NodeHandlerReturns
    \/ NodeHandlerRaises
    \/ NodeSleepOver
    \/ \E graph_id \in {"g", "unknown"} : CancelExecution(graph_id)

SpecGraph == InitGraph /\ [][NextGraph]_vars

(***************************************************************************)
(* SpecPool: one ConnectionPool of any capacity within the bound, driven   *)
(* by add_connection, remove_connection and record_operation_result.  ph   *)
(* observes each call: the method, the name, whether it raised, and the    *)
(* pool it was called on.                                                  *)
(***************************************************************************)
PoolNames == {"s1", "s2", "s3"}

InitPool ==
    /\ now = 0
    /\ \E max \in 0..MaxConnections : pool = ConnectionPool(max)
    /\ calls = [c \in Callers |-> NewCall]
    /\ started = 0
    /\ ParkedBreaker /\ ParkedRetry /\ ParkedTasks /\ ParkedGraph /\ ParkedManager

PoolAddConnection(name) ==
    /\ pool' = add_connection(pool, name, TRUE)
    /\ ph' = [op |-> "add_connection", name |-> name,
              raised |-> add_connection_full(pool), before |-> pool]
    /\ UNCHANGED <<now, calls, started, manager, op, hc,
                   breakerVars, retryVars, taskVars, graphVars>>

PoolRemoveConnection(name) ==
    /\ pool' = remove_connection(pool, name)
    /\ ph' = [op |-> "remove_connection", name |-> name, raised |-> FALSE, before |-> pool]
    /\ UNCHANGED <<now, calls, started, manager, op, hc,
                   breakerVars, retryVars, taskVars, graphVars>>

PoolRecordOperationResult(name) ==
    /\ name \in DOMAIN pool.connection_metrics
    /\ pool.connection_metrics[name].success_count < MaxPoolRecords
    /\ pool.connection_metrics[name].total_errors < MaxPoolRecords
    /\ \E success \in BOOLEAN :
          pool' = record_operation_result(pool, name, success,
                      IF success THEN "None" ELSE NETWORK_ERROR, now)
    /\ ph' = [op |-> "record_operation_result", name |-> name, raised |-> FALSE,
              before |-> pool]
    /\ UNCHANGED <<now, calls, started, manager, op, hc,
                   breakerVars, retryVars, taskVars, graphVars>>

NextPool ==
    \/ \E name \in PoolNames : PoolAddConnection(name)
    \/ \E name \in PoolNames : PoolRemoveConnection(name)
    \/ \E name \in PoolNames : PoolRecordOperationResult(name)

SpecPool == InitPool /\ [][NextPool]_vars

(***************************************************************************)
(* SpecManager: one MCPManager used by one caller, which runs one method   *)
(* at a time, while the health-check loop the manager started runs         *)
(* concurrently.  The config file lists one server, enabled or not; the    *)
(* caller calls initialize while no health-check loop is running; the      *)
(* connect, the probes, the agent and the disconnect return or raise as    *)
(* they please.                                                            *)
(***************************************************************************)
ManagerErrors == {OpError(0, {"connection"}), OpError(0, {"auth"})}

InitManager ==
    /\ now = 0
    /\ ParkedBreaker /\ ParkedRetry /\ ParkedHandler /\ ParkedTasks /\ ParkedGraph
    /\ \E config \in [{"s1"} -> BOOLEAN], auto_reconnect \in BOOLEAN :
          manager = MCPManager(config,
                        [auto_reconnect |-> auto_reconnect,
                         max_reconnect_attempts |-> MaxReconnectAttempts])
    /\ op = NewOp
    /\ hc = [i \in {1} |-> NewLoop]
    /\ ph = NoPoolCall

ApplyOp(w) ==
    /\ manager' = w.manager
    /\ pool' = w.pool
    /\ hc' = w.hc
    /\ op' = w.op
    /\ UNCHANGED <<now, calls, started, ph, breakerVars, retryVars, taskVars, graphVars>>

ApplyLoop(i, w) ==
    /\ manager' = w.manager
    /\ pool' = w.pool
    /\ hc' = [hc EXCEPT ![i] = w.loop]
    /\ UNCHANGED <<now, op, calls, started, ph, breakerVars, retryVars, taskVars, graphVars>>

Callable == op.pc \in {"idle", "done"}

\* the failure counters stay within the bound
MayFail == \A n \in DOMAIN manager.health_check_failures :
               manager.health_check_failures[n] < MaxHealthFailures

Initialize ==
    /\ Callable
    /\ \E i \in DOMAIN hc : ~Active(hc[i])
    /\ ApplyOp(initialize(manager, pool, hc))

EnableServer(name) == Callable /\ ApplyOp(enable_server(manager, pool, hc, name))

DisableServer(name) == Callable /\ ApplyOp(disable_server(manager, pool, hc, name))

RemoveServer(name) == Callable /\ ApplyOp(remove_server(manager, pool, hc, name))

ReconnectServer(name) == Callable /\ ApplyOp(reconnect_server(manager, pool, hc, name))

ExecuteCommand == Callable /\ ApplyOp(execute_command(manager, pool, hc, now))

ManagerShutdown == Callable /\ ApplyOp(shutdown(manager, pool, hc))

ConnectReturns ==
    /\ op.pc = "connect"
    /\ ApplyOp(op_connect_returns(manager, pool, hc, op))

ConnectRaises ==
    /\ op.pc = "connect"
    /\ MayFail
    /\ ApplyOp(op_connect_raises(manager, pool, hc, op))

\* the awaited execute_with_retry of a call of execute_with_error_handling suspended
\* in c ends: it returns the operation's result or raises its exception (lines
\* 575-600); or the awaited fallback returns
CallSteps(c, p, t) ==
    IF c.pc = "retry"
    THEN {final_success(c, p, AgentContent, t)}
         \cup {final_failure(c, p, e, t) : e \in ManagerErrors}
    ELSE {[call |-> fallback_returns(c, FallbackResult), pool |-> p]}

CommandAwaited ==
    /\ op.pc = "command"
    /\ \E r \in CallSteps(op.call, pool, now) :
          ApplyOp(after_command_step(manager, r, hc, op))

DisconnectOver ==
    /\ op.pc = "disconnect"
    /\ ApplyOp(disconnect_over(manager, pool, hc, op))

HealthSleepOver(i) ==
    /\ hc[i].pc = "sleeping"
    /\ \A n \in DOMAIN pool.connection_metrics :
          /\ pool.connection_metrics[n].success_count < MaxPoolRecords
          /\ pool.connection_metrics[n].total_errors < MaxPoolRecords
    /\ MayFail
    /\ ApplyLoop(i, perform_health_check(manager, pool, hc[i], now))

ProbeAwaited(i) ==
    /\ hc[i].pc = "probe"
    /\ \E r \in CallSteps(hc[i].call, pool, now) :
          /\ r.call.outcome.kind = "raised" => MayFail
          /\ ApplyLoop(i, after_probe_step(manager, r, hc[i], now))

ReconnectConnectReturns(i) ==
    /\ hc[i].pc = "connect"
    /\ ApplyLoop(i, reconnect_connect_returns(manager, pool, hc[i], now))

ReconnectConnectRaises(i) ==
    /\ hc[i].pc = "connect"
    /\ MayFail
    /\ ApplyLoop(i, reconnect_connect_raises(manager, pool, hc[i], now))

ReconnectSleepOver(i) ==
    /\ hc[i].pc = "reconnect_sleep"
    /\ ApplyLoop(i, reconnect_attempt(manager, pool, hc[i], hc[i].attempt + 1, now))

NextManager ==
    \/ Initialize
    \/ \E name \in DOMAIN manager.config : EnableServer(name)
    \/ \E name \in DOMAIN manager.config : DisableServer(name)
    \/ \E name \in DOMAIN manager.config : RemoveServer(name)
    \/ \E name \in DOMAIN manager.config : ReconnectServer(name)
    \/ ExecuteCommand
    \/ ManagerShutdown
    \/ ConnectReturns
    \/ ConnectRaises
    \/ CommandAwaited
    \/ DisconnectOver
    \/ \E i \in DOMAIN hc : HealthSleepOver(i)
    \/ \E i \in DOMAIN hc : ProbeAwaited(i)
    \/ \E i \in DOMAIN hc : ReconnectConnectReturns(i)
    \/ \E i \in DOMAIN hc : ReconnectConnectRaises(i)
    \/ \E i \in DOMAIN hc : ReconnectSleepOver(i)

SpecManager == InitManager /\ [][NextManager]_vars

(***************************************************************************)
(* SpecHealth: the health-check loop of a manager whose config file lists  *)
(* two servers, each enabled or not, while the caller initializes, enables *)
(* and disables servers and shuts down.                                    *)
(***************************************************************************)
InitHealth ==
    /\ now = 0
    /\ ParkedBreaker /\ ParkedRetry /\ ParkedHandler /\ ParkedTasks /\ ParkedGraph
    /\ \E config \in [{"s1", "s2"} -> BOOLEAN], auto_reconnect \in BOOLEAN :
          manager = MCPManager(config,
                        [auto_reconnect |-> auto_reconnect,
                         max_reconnect_attempts |-> MaxReconnectAttempts])
    /\ op = NewOp
    /\ hc = [i \in {1} |-> NewLoop]
    /\ ph = NoPoolCall

LoopSteps ==
    \/ \E i \in DOMAIN hc : HealthSleepOver(i)
    \/ \E i \in DOMAIN hc : ProbeAwaited(i)
    \/ \E i \in DOMAIN hc : ReconnectConnectReturns(i)
    \/ \E i \in DOMAIN hc : ReconnectConnectRaises(i)
    \/ \E i \in DOMAIN hc : ReconnectSleepOver(i)

NextHealth ==
    \/ Initialize
    \/ \E name \in DOMAIN manager.config : EnableServer(name)
    \/ ConnectReturns
    \/ ConnectRaises
    \/ LoopSteps

SpecHealth == InitHealth /\ [][NextHealth]_vars

\* The connect a reconnect attempt awaits eventually returns or raises, and the
\* asyncio.sleep(delay) between two attempts eventually ends.
ReconnectSteps ==
    \E i \in DOMAIN hc :
       \/ ReconnectConnectReturns(i)
       \/ ReconnectConnectRaises(i)
       \/ ReconnectSleepOver(i)

\* SpecReconnect: SpecHealth for one enabled server and auto_reconnect on
InitReconnect ==
    /\ now = 0
    /\ ParkedBreaker /\ ParkedRetry /\ ParkedHandler /\ ParkedTasks /\ ParkedGraph
    /\ manager = MCPManager([n \in {"s1"} |-> TRUE],
                     [auto_reconnect |-> TRUE,
                      max_reconnect_attempts |-> MaxReconnectAttempts])
    /\ op = NewOp
    /\ hc = [i \in {1} |-> NewLoop]
    /\ ph = NoPoolCall

SpecReconnect == InitReconnect /\ [][NextHealth]_vars /\ WF_vars(ReconnectSteps)

(***************************************************************************)
(* SpecLoops: the health-check tasks of a manager with one server whose    *)
(* caller calls initialize and shutdown in any order, initialize again     *)
(* without a shutdown included; two task slots.                            *)
(***************************************************************************)
InitLoops ==
    /\ now = 0
    /\ ParkedBreaker /\ ParkedRetry /\ ParkedHandler /\ ParkedTasks /\ ParkedGraph
    /\ \E config \in [{"s1"} -> BOOLEAN], auto_reconnect \in BOOLEAN :
          manager = MCPManager(config,
                        [auto_reconnect |-> auto_reconnect,
                         max_reconnect_attempts |-> MaxReconnectAttempts])
    /\ op = NewOp
    /\ hc = [i \in {1, 2} |-> NewLoop]
    /\ ph = NoPoolCall

NextLoops ==
    \/ Initialize
    \/ \E name \in DOMAIN manager.config : EnableServer(name)
    \/ ManagerShutdown
    \/ ConnectReturns
    \/ ConnectRaises
    \/ DisconnectOver
    \/ LoopSteps

SpecLoops == InitLoops /\ [][NextLoops]_vars

(***************************************************************************)
(*                               CLAIMS                                    *)
(***************************************************************************)

\* C1 (SpecTask): once a task's status is Completed, Failed or Cancelled, no later
\* step changes it: not its execution unit, not the retry, not cancel_task, not
\* shutdown.
C1_TerminalStatusIsFinal ==
    [][\A id \in DOMAIN tasks :
          tasks[id].status \in Terminal => tasks'[id].status = tasks[id].status]_vars

\* C2 (SpecBreaker): a Closed breaker becomes Open exactly at the record_failure()
\* that is the failure_threshold-th in a row with no record_success() in between,
\* and stays Closed at every other call; while Closed, failure_count is the length
\* of the current run of failures (a success resets it) and is below the threshold.
C2_OpensAtThresholdthFailure ==
    /\ [][breaker.state = CONNECTED =>
            /\ breaker'.state \in {CONNECTED, CIRCUIT_OPEN}
            /\ breaker'.state = CIRCUIT_OPEN <=>
                  (bh'.op = "record_failure"
                   /\ bh'.failRun = breaker.config.failure_threshold)]_vars
    /\ [](breaker.state = CONNECTED =>
            /\ breaker.failure_count = bh.failRun
            /\ bh.failRun < breaker.config.failure_threshold)

\* Scenario B: the third consecutive record_failure() with failure_threshold = 3
\* has just opened the breaker.
C2_Witness ==
    /\ breaker.config.failure_threshold = 3
    /\ bh.op = "record_failure" /\ bh.before = CONNECTED /\ bh.failRun = 3
    /\ breaker.state = CIRCUIT_OPEN
    /\ ~can_execute(breaker, now).ret

\* C3 (SpecBreaker): while Open and no more than recovery_timeout has elapsed since
\* last_failure_time, can_execute() returns false and every call leaves the breaker
\* Open; the breaker leaves Open only inside can_execute(), to HalfOpen, when more
\* than recovery_timeout has elapsed, and that call returns true.
C3_OpenUntilRecoveryTimeout ==
    [][breaker.state = CIRCUIT_OPEN =>
         /\ now - breaker.last_failure_time <= breaker.config.recovery_timeout =>
               /\ breaker'.state = CIRCUIT_OPEN
               /\ bh'.op = "can_execute" => ~bh'.ret
         /\ breaker'.state # CIRCUIT_OPEN =>
               /\ bh'.op = "can_execute" /\ bh'.ret
               /\ breaker'.state = RECONNECTING
               /\ now - breaker.last_failure_time > breaker.config.recovery_timeout]_vars

\* can_execute() has just refused on an Open breaker exactly recovery_timeout after
\* the last failure.
C3_Witness ==
    /\ bh.op = "can_execute" /\ bh.before = CIRCUIT_OPEN /\ ~bh.ret
    /\ breaker.config.recovery_timeout = 2
    /\ bh.elapsed = breaker.config.recovery_timeout
    /\ breaker.state = CIRCUIT_OPEN

\* C4 (SpecBreaker): a HalfOpen breaker becomes Closed exactly at the
\* record_success() that is the half_open_max_calls-th since HalfOpen was entered,
\* and becomes Open exactly at a record_failure(), whatever the successes before it.
C4_HalfOpenClosesOrReopens ==
    [][breaker.state = RECONNECTING =>
         /\ breaker'.state = CONNECTED <=>
               (bh'.op = "record_success"
                /\ bh'.halfOpenSuccesses = breaker.config.half_open_max_calls)
         /\ breaker'.state = CIRCUIT_OPEN <=> bh'.op = "record_failure"]_vars

\* the second record_success() since entering HalfOpen has just closed a breaker
\* with half_open_max_calls = 2.
C4_Witness ==
    /\ breaker.config.half_open_max_calls = 2
    /\ bh.op = "record_success" /\ bh.before = RECONNECTING /\ bh.halfOpenSuccesses = 2
    /\ breaker.state = CONNECTED /\ breaker.failure_count = 0

\* the failure kind execute_with_retry works with (line 297)
kind_of(e) == IF classifier THEN classify_error(e) ELSE UNKNOWN_ERROR

\* C5 (SpecRetry): the operation is invoked at most max_attempts times; a failure
\* of a retryable kind with attempts left is followed by another invocation, never
\* by giving up; and when an invocation succeeds after k failures the driver
\* returns that invocation's result having made exactly k + 1 invocations.
C5_AtMostMaxAttemptsInvocations ==
    /\ retry.invocations <= retry_config.max_attempts
    /\ retry.pc = "in_op" => retry.invocations = retry.failed + 1
    /\ retry.pc = "sleep" => retry.invocations = retry.failed
                             /\ retry.failed < retry_config.max_attempts
    /\ (retry.pc = "done" /\ retry.outcome.kind = "raised" /\ retry.failed > 0) =>
          \/ kind_of(retry.last_exception) = AUTHENTICATION_ERROR
          \/ retry.failed = retry_config.max_attempts
    /\ retry.outcome.kind = "returned" =>
          /\ retry.pc = "done"
          /\ retry.invocations = retry.failed + 1
          /\ retry.outcome.what = OpResult(retry.invocations)

\* Scenario C: max_attempts = 5, two retryable failures, then success: returned
\* after 3 invocations.
C5_Witness ==
    /\ retry_config.max_attempts = 5
    /\ retry.pc = "done" /\ retry.outcome = Returned(OpResult(3))
    /\ retry.failed = 2 /\ retry.invocations = 3 /\ retry.sleeps = 2

C7_ExhaustionRaisesLastFailure ==
    retry.pc = "done" =>
        /\ retry.outcome.kind \in {"returned", "raised"}
        /\ retry.outcome.kind = "returned" =>
              /\ retry.outcome.what.src = "op_result"
              /\ retry.outcome.what.n = retry.invocations
              /\ retry.failed < retry.invocations
        /\ (retry.failed = retry.invocations /\ retry.invocations > 0) =>
              /\ retry.outcome = Raised(retry.last_exception)
              /\ retry.last_exception.src = "op"
              /\ retry.last_exception.n = retry.invocations
        /\ retry_config.max_attempts = 0 => retry.outcome.kind = "raised"

\* three invocations of three failed with retryable kinds: the third failure is
\* raised.
C7_Witness ==
    /\ retry_config.max_attempts = 3
    /\ retry.pc = "done" /\ retry.failed = 3 /\ retry.invocations = 3
    /\ retry.outcome = Raised(OpError(3, {"timeout"}))

\* the breaker forbids a call on `name` at time t: no breaker in the pool, or
\* can_execute() false
Forbidden(p, name, t) ==
    \/ name \notin DOMAIN p.circuit_breakers
    \/ ~can_execute(p.circuit_breakers[name], t).ret

\* the step begins a call of caller c
Begins(c) == started' = started + 1 /\ calls'[c] # calls[c]

\* C8 (SpecHandler): a call the breaker forbids (no breaker for the name, or
\* can_execute() false) leaves the pool as it was, never invokes the operation,
\* never sleeps and records nothing; with a fallback it invokes the fallback once
\* and ends as the fallback ends (its result returned), without one it at once
\* raises the 'not available' RuntimeError.
C8_ForbiddenCallTouchesNothing ==
    /\ [][\A c \in Callers :
            /\ (Begins(c) /\ Forbidden(pool, calls'[c].connection_name, now)) =>
                  /\ ~calls'[c].admitted
                  /\ pool' = pool
                  /\ IF calls'[c].fallback
                     THEN calls'[c].pc = "fallback_unavailable"
                     ELSE calls'[c].pc = "done" /\ calls'[c].outcome = Raised(Unavailable)
            /\ (Begins(c) /\ ~Forbidden(pool, calls'[c].connection_name, now)) =>
                  calls'[c].admitted
            /\ (calls[c].pc = "fallback_unavailable" /\ calls'[c] # calls[c]) =>
                  pool' = pool]_vars
    /\ [](\A c \in Callers :
            (calls[c].pc # "idle" /\ ~calls[c].admitted) =>
                /\ calls[c].retry = NewRetry
                /\ calls[c].records = <<>>
                /\ calls[c].fallback_calls = (IF calls[c].fallback THEN 1 ELSE 0)
                /\ calls[c].pc \in {"fallback_unavailable", "done"}
                /\ calls[c].pc = "done" =>
                      IF calls[c].fallback
                      THEN /\ calls[c].outcome = calls[c].fallback_outcome
                           /\ calls[c].outcome.kind \in {"returned", "raised"}
                           /\ calls[c].outcome.what.src \in {"fallback_result", "fallback"}
                      ELSE calls[c].outcome = Raised(Unavailable))

\* a call on "server1" was refused by its Open breaker and returned the fallback's
\* result.
C8_Witness ==
    \E c \in Callers :
        /\ calls[c].pc = "done" /\ ~calls[c].admitted
        /\ calls[c].connection_name = "server1"
        /\ pool.circuit_breakers["server1"].state = CIRCUIT_OPEN
        /\ calls[c].outcome = Returned(FallbackResult)
        /\ calls[c].retry.invocations = 0

\* an admitted call whose operation finally failed under the retry policy
FinallyFailed(c) ==
    /\ calls[c].admitted
    /\ calls[c].retry.pc = "done"
    /\ calls[c].retry.outcome.kind = "raised"

\* C9 as stated (SpecHandler): when the operation finally fails and a fallback is
\* given, the fallback is invoked once; its result is returned if it succeeds and
\* its own failure reaches the caller if it fails.
C9_FallbackFailurePropagates ==
    \A c \in Callers :
        (FinallyFailed(c) /\ calls[c].fallback /\ calls[c].pc = "done") =>
            /\ calls[c].fallback_calls = 1
            /\ calls[c].outcome = calls[c].fallback_outcome

\* C9 as amended (SpecHandler): when the operation finally fails and a fallback is
\* given, the fallback is invoked exactly once; if it succeeds its result is
\* returned; if it fails, its failure is dropped and the final failure of the
\* operation reaches the caller; with no fallback the final failure is re-raised.
C9_FallbackFailureGivesOperationFailure ==
    \A c \in Callers :
        FinallyFailed(c) =>
            IF calls[c].fallback
            THEN /\ calls[c].fallback_calls = 1
                 /\ calls[c].pc \in {"fallback_after_failure", "done"}
                 /\ calls[c].pc = "fallback_after_failure" =>
                       calls[c].fallback_outcome = NoOutcome
                 /\ calls[c].pc = "done" =>
                       /\ calls[c].fallback_outcome.kind \in {"returned", "raised"}
                       /\ calls[c].fallback_outcome.kind = "returned" =>
                             calls[c].outcome = calls[c].fallback_outcome
                       /\ calls[c].fallback_outcome.kind = "raised" =>
                             calls[c].outcome = Raised(calls[c].retry.outcome.what)
            ELSE /\ calls[c].fallback_calls = 0
                 /\ calls[c].pc = "done"
                 /\ calls[c].outcome = Raised(calls[c].retry.outcome.what)

\* the operation finally failed, the fallback failed too, and the caller got the
\* operation's failure.
C9_Witness ==
    \E c \in Callers :
        /\ FinallyFailed(c) /\ calls[c].fallback /\ calls[c].pc = "done"
        /\ calls[c].fallback_outcome = Raised(FallbackError({}))
        /\ calls[c].outcome = Raised(calls[c].retry.outcome.what)
        /\ calls[c].outcome.what.src = "op"

\* C10 (SpecHandler): an admitted call calls record_operation_result exactly once,
\* when execute_with_retry is over, for its own server: a success if an invocation
\* succeeded, otherwise a failure with the kind of the final failure; a failed
\* invocation that the retry absorbs leaves the pool untouched.
C10_OneRecordPerAdmittedCall ==
    /\ [][\A c \in Callers :
            (calls'[c].pc = "retry" /\ calls'[c].retry.failed > calls[c].retry.failed
                /\ ~Begins(c)) => pool' = pool]_vars
    /\ [](\A c \in Callers :
            calls[c].admitted =>
                /\ calls[c].pc = "retry" =>
                      calls[c].retry.pc # "done" /\ calls[c].records = <<>>
                /\ calls[c].pc # "retry" =>
                      /\ calls[c].retry.pc = "done"
                      /\ Len(calls[c].records) = 1
                      /\ calls[c].records[1] =
                            IF calls[c].retry.outcome.kind = "returned"
                            THEN [name |-> calls[c].connection_name, success |-> TRUE,
                                  error_type |-> "None"]
                            ELSE [name |-> calls[c].connection_name, success |-> FALSE,
                                  error_type |->
                                      classify_error(calls[c].retry.outcome.what)])

\* on a fresh breaker, a call whose two invocations both timed out recorded one
\* timeout failure: failure_count is 1.
C10_Witness ==
    \E c \in Callers :
        /\ calls[c].pc = "done" /\ calls[c].admitted
        /\ calls[c].retry.failed = 2 /\ calls[c].retry.invocations = 2
        /\ calls[c].records = <<[name |-> "server1", success |-> FALSE,
                                 error_type |-> CONNECTION_TIMEOUT]>>
        /\ pool.circuit_breakers["server1"].failure_count = 1
        /\ pool.connection_metrics["server1"].total_errors = 1

\* C11 (SpecTask): if the policy check of a task returns Deny, the task ends
\* Failed and the execution strategy (strategy decision, execution) is never
\* invoked for that task afterwards, whatever its retry_count and whatever the
\* policy engine answers to later checks.
C11_DeniedTaskNeverExecutes ==
    \A id \in DOMAIN tasks :
        units[id].denied =>
            /\ units[id].pc \notin {"decide", "execute"}
            /\ units[id].pc = "finished" => tasks[id].status = FAILED

\* C12 (SpecTask): a policy Deny is not retried: once the policy check has
\* denied a task, no further pipeline run is begun for it.
C12_DenyIsNotRetried ==
    [][\A id \in DOMAIN tasks :
          units[id].denied => units'[id].runs = units[id].runs]_vars

\* C13 (SpecTaskLive): the pipeline of a task is run at most retry_count + 1
\* times; the execution unit terminates; and a task whose every run failed ends
\* Failed after exactly retry_count + 1 runs, with the error of the last run.
C13_RetriesBoundedAndLastErrorKept ==
    /\ [](\A id \in DOMAIN tasks :
            /\ units[id].runs <= units[id].request_retry_count + 1
            /\ (units[id].pc = "finished" /\ units[id].failed = units[id].runs) =>
                  /\ units[id].runs = units[id].request_retry_count + 1
                  /\ tasks[id].status = FAILED
                  /\ tasks[id].error.run = units[id].runs
                  /\ tasks[id].error.stage # "None")
    /\ \A id \in TaskIds :
          (units[id].pc = "scheduled") ~> (units[id].pc = "finished")

C13_Witness ==
    \E id \in DOMAIN tasks :
        /\ units[id].request_retry_count = MaxRetryCount
        /\ units[id].pc = "finished"
        /\ units[id].failed = MaxRetryCount + 1
        /\ tasks[id].status = FAILED
        /\ tasks[id].error = [stage |-> "execute", run |-> MaxRetryCount + 1]

Cancellable(ts, id) == id \in DOMAIN ts /\ ts[id].status \in {PENDING, RUNNING}

\* C14 (SpecTask): cancel_task(id) returns true and sets the status to
\* Cancelled exactly when the task exists and is Pending or Running at the call;
\* otherwise it returns false and leaves every task record unchanged.
C14_CancelOnlyPendingOrRunning ==
    [][\A id \in TaskIds \cup {"invalid_job_id"} :
          CancelTask(id) =>
             /\ cancel_task(tasks, id).ret = Cancellable(tasks, id)
             /\ IF Cancellable(tasks, id)
                THEN /\ DOMAIN tasks' = DOMAIN tasks
                     /\ tasks'[id].status = CANCELLED
                     /\ \A o \in DOMAIN tasks \ {id} : tasks'[o] = tasks[o]
                ELSE tasks' = tasks]_vars

C14_Witness ==
    \E id, o \in DOMAIN tasks :
        /\ tasks[id].status = CANCELLED /\ units[id].pc = "scheduled"
        /\ tasks[o].status = COMPLETED

\* the pairs reachable along one or more edges
RECURSIVE Closure(_)
Closure(R) ==
    LET R2 == R \cup {<<p[1][1], p[2][2]>> : p \in {q \in R \X R : q[1][2] = q[2][1]}}
    IN IF R2 = R THEN R ELSE Closure(R2)

HasCycle(g) ==
    \E p \in Closure({<<g.edges[k].from_node, g.edges[k].to_node>> :
                         k \in 1..Len(g.edges)}) : p[1] = p[2]

NodesWith(g, status) == {i \in 1..Len(g.nodes) : g.nodes[i].status = status}

\* C15 (SpecGraph): a graph whose edges form a cycle (a self-loop included) is
\* rejected by validation, and execute on it runs no node.
C15_CyclicGraphRejected ==
    (HasCycle(graph) /\ run.pc # "idle") =>
        /\ run.errors # <<>>
        /\ run.invoked = <<>>
        /\ NodesWith(graph, NodeStatus_PENDING) = 1..Len(graph.nodes)

BreaksRule(g) ==
    \/ \E i, j \in 1..Len(g.nodes) : i # j /\ g.nodes[i].id = g.nodes[j].id
    \/ \E k \in 1..Len(g.edges) :
          \/ \A i \in 1..Len(g.nodes) : g.nodes[i].id # g.edges[k].from_node
          \/ \A i \in 1..Len(g.nodes) : g.nodes[i].id # g.edges[k].to_node
    \/ \E i \in 1..Len(g.nodes) :
          \/ g.nodes[i].type = NAVIGATE /\ g.nodes[i].url \in {NoField, ""}
          \/ g.nodes[i].type \in {CLICK, TYPE, ASSERT} /\ g.nodes[i].locator \in {NoField, ""}
          \/ g.nodes[i].type = TYPE /\ g.nodes[i].text \in {NoField, ""}

Position(order, id) == CHOOSE k \in 1..Len(order) : order[k] = id

\* C17 (SpecValidate): for a graph accepted by validation the execution order
\* holds each node exactly once and places every node after all nodes that have
\* an edge into it.
C17_OrderRespectsEdges ==
    run.pc = "sorted" =>
        /\ Len(run.execution_order) = Len(graph.nodes)
        /\ {run.execution_order[k] : k \in 1..Len(run.execution_order)} = id_set(graph)
        /\ \A k \in 1..Len(graph.edges) :
              Position(run.execution_order, graph.edges[k].from_node)
                 < Position(run.execution_order, graph.edges[k].to_node)

\* C18 (SpecGraph): in Normal mode, when a node has failed on all its attempts,
\* execute dispatches no further node, marks the graph Failed, removes it from
\* the running set and returns a result with success = false and
\* completed_nodes = the number of nodes completed before the failing one.
C18_ExhaustedNodeHaltsGraph ==
    (run.pc = "done" /\ run.mode = NORMAL
     /\ NodesWith(graph, NodeStatus_FAILED) # {}) =>
        /\ Cardinality(NodesWith(graph, NodeStatus_FAILED)) = 1
        /\ NodesWith(graph, NodeStatus_RUNNING) = {}
        /\ run.position = Cardinality(NodesWith(graph, NodeStatus_COMPLETED)) + 1
        /\ graph.status = NodeStatus_FAILED
        /\ graph.id \notin engine.running_graphs
        /\ run.outcome.kind = "returned"
        /\ run.outcome.what.success = FALSE
        /\ run.outcome.what.completed_nodes
              = Cardinality(NodesWith(graph, NodeStatus_COMPLETED))

AllSucceeded ==
    /\ run.pc = "done" /\ run.mode = NORMAL /\ run.errors = <<>>
    /\ run.succeeded = id_set(graph)

AllCompleted ==
    /\ NodesWith(graph, NodeStatus_COMPLETED) = 1..Len(graph.nodes)
    /\ graph.status = NodeStatus_COMPLETED
    /\ run.outcome.kind = "returned"
    /\ run.outcome.what.success = TRUE
    /\ run.outcome.what.completed_nodes = run.outcome.what.total_nodes
    /\ run.outcome.what.total_nodes = Len(graph.nodes)

\* C19 (SpecGraph), as stated: in Normal mode, if every node's handler succeeds
\* within the node's attempts, every node and the graph end Completed and the
\* result has success = true and completed_nodes = total_nodes; and every
\* result has success = true exactly when completed_nodes = total_nodes.
C19_SuccessIffAllCompleted ==
    /\ AllSucceeded => AllCompleted
    /\ (run.mode = NORMAL /\ run.outcome.kind = "returned") =>
          (run.outcome.what.success
             <=> run.outcome.what.completed_nodes = run.outcome.what.total_nodes)

\* C19 (SpecGraph), amended: the same, with success = true exactly when
\* completed_nodes = total_nodes for the result of every execution that passed
\* validation; the result of a failed validation has success = false and
\* completed_nodes = 0, also when the graph has no node.
C19_SuccessIffAllCompletedWhenValid ==
    /\ AllSucceeded => AllCompleted
    /\ (run.mode = NORMAL /\ run.outcome.kind = "returned") =>
          IF run.errors = <<>>
          THEN run.outcome.what.success
                 <=> run.outcome.what.completed_nodes = run.outcome.what.total_nodes
          ELSE /\ run.outcome.what.success = FALSE
               /\ run.outcome.what.completed_nodes = 0

C19_Witness ==
    /\ AllSucceeded
    /\ Len(graph.nodes) = 3
    /\ Len(run.invoked) > 3
    /\ run.outcome.what.success = TRUE

\* C20 (SpecGraph): in DryRun mode execute invokes no node handler, marks every
\* node of a valid graph Completed, and returns success = true with
\* completed_nodes = total_nodes.
C20_DryRunCompletesWithoutHandlers ==
    (run.pc = "done" /\ run.mode = DRY_RUN /\ run.errors = <<>>) =>
        /\ run.invoked = <<>>
        /\ NodesWith(graph, NodeStatus_COMPLETED) = 1..Len(graph.nodes)
        /\ run.outcome.kind = "returned"
        /\ run.outcome.what.success = TRUE
        /\ run.outcome.what.completed_nodes = Len(graph.nodes)
        /\ run.outcome.what.total_nodes = Len(graph.nodes)

C20_Witness ==
    /\ run.pc = "done" /\ run.mode = DRY_RUN
    /\ Len(graph.nodes) = 3
    /\ run.outcome.kind = "returned"
    /\ run.outcome.what.completed_nodes = 3

\* C21 (SpecGraph): when validation fails, execute returns a failed result with
\* completed_nodes = 0 and changes nothing else: no handler is invoked, the
\* graph (node statuses, status, start time, log) and the engine (running set,
\* history) are as before.
C21_FailedValidationHasNoEffect ==
    [][(ExecuteGraph /\ validate_graph(graph) # <<>>) =>
          /\ graph' = graph
          /\ engine' = engine
          /\ run'.invoked = <<>>
          /\ run'.pc = "done"
          /\ run'.outcome.kind = "returned"
          /\ run'.outcome.what.success = FALSE
          /\ run'.outcome.what.completed_nodes = 0]_vars

C21_Witness ==
    /\ run.pc = "done"
    /\ run.errors = <<ValidationError("url", "a")>>
    /\ run.outcome.kind = "returned"
    /\ graph.status = NodeStatus_PENDING

\* C22 (SpecGraph): once cancel_execution has returned true for the graph, the
\* graph is absent from the running set and its status stays Failed: the
\* execution still running never sets it back to Completed.
C22_CancelledGraphStaysFailed ==
    run.cancelled =>
        /\ graph.id \notin engine.running_graphs
        /\ graph.status = NodeStatus_FAILED

\* C23 (SpecGraph): every status change of a node follows
\* Pending -> Running -> {Completed | Failed | Skipped}, in every mode: a node
\* becomes Completed or Failed only from Running, and a node that is Completed,
\* Failed or Skipped never changes status again.
C23_NodeStateMachine ==
    [][\A i \in 1..Len(graph.nodes) :
          graph'.nodes[i].status # graph.nodes[i].status =>
             \/ /\ graph.nodes[i].status = NodeStatus_PENDING
                /\ graph'.nodes[i].status = NodeStatus_RUNNING
             \/ /\ graph.nodes[i].status = NodeStatus_RUNNING
                /\ graph'.nodes[i].status \in {NodeStatus_COMPLETED, NodeStatus_FAILED,
                                               NodeStatus_SKIPPED}]_vars

(***************************************************************************)
(* C29: add_connection called on a pool that already holds                 *)
(* max_connections connections raises and leaves the pool as it was, so    *)
(* whatever add_connection (also of a name already pooled, as a reconnect  *)
(* does) and remove_connection calls are made, the pool never holds more   *)
(* than max_connections connections.                                       *)
(***************************************************************************)
C29_PoolNeverExceedsCapacity ==
    /\ Cardinality(DOMAIN pool.active_connections) <= pool.max_connections
    /\ DOMAIN pool.connection_metrics = DOMAIN pool.active_connections
    /\ DOMAIN pool.circuit_breakers = DOMAIN pool.active_connections
    /\ (/\ ph.op = "add_connection"
        /\ Cardinality(DOMAIN ph.before.active_connections) >= ph.before.max_connections)
       => ph.raised /\ pool = ph.before

\* add_connection of a name that is already pooled, refused by a pool that is full
\* with two connections
C29_Witness ==
    /\ ph.op = "add_connection"
    /\ ph.raised
    /\ ph.name \in DOMAIN pool.active_connections
    /\ pool.max_connections = MaxConnections
    /\ Cardinality(DOMAIN pool.active_connections) = MaxConnections

(***************************************************************************)
(* C24: on a manager that initialized successfully, with every enabled     *)
(* server CONNECTED and no failure counted, an execute_command that has    *)
(* returned went through the agent (its call was admitted and the          *)
(* operation invoked): the fallback message comes only from an open        *)
(* breaker or after the agent finally failed.                              *)
(***************************************************************************)
AllConnected ==
    /\ manager.is_initialized
    /\ \A n \in DOMAIN manager.servers :
          manager.servers[n] =>
             /\ n \in DOMAIN manager.connection_states
             /\ manager.connection_states[n] = CONNECTED
    /\ \A n \in DOMAIN manager.health_check_failures :
          manager.health_check_failures[n] = 0
    /\ \A n \in DOMAIN pool.circuit_breakers :
          /\ pool.circuit_breakers[n].state = CONNECTED
          /\ pool.connection_metrics[n].total_errors = 0

C24_CommandInvokesBackend ==
    (/\ op.method = "execute_command"
     /\ op.pc = "done"
     /\ op.outcome.kind = "returned"
     /\ AllConnected)
    => /\ op.call.admitted
       /\ op.call.retry.invocations > 0

(***************************************************************************)
(* C25 as stated: whatever state the manager is in, execute_command ends   *)
(* by returning, never by raising.                                         *)
(***************************************************************************)
C25_CommandNeverRaises ==
    (op.method = "execute_command" /\ op.pc = "done") => op.outcome.kind = "returned"

\* the step is a call of execute_command
CallsExecuteCommand ==
    /\ Callable
    /\ op'.method = "execute_command"
    /\ hc' = hc

(***************************************************************************)
(* C25, amended: execute_command called on a manager that is initialized   *)
(* and has an agent ends by returning a string, the agent's content or the *)
(* fallback message, and never raises; called on a manager that is not     *)
(* initialized or has no agent it raises RuntimeError at once and changes  *)
(* nothing.                                                                *)
(***************************************************************************)
C25_CommandRaisesOnlyWhenNotInitialized ==
    [][/\ CallsExecuteCommand =>
            IF manager.is_initialized /\ manager.agent
            THEN \/ op'.pc = "command"
                 \/ op'.pc = "done" /\ op'.outcome.kind = "returned"
            ELSE /\ op'.pc = "done"
                 /\ op'.outcome = Raised(NotInitialized)
                 /\ manager' = manager
                 /\ pool' = pool
       /\ (op.pc = "command" /\ op'.pc = "done") =>
            /\ op'.outcome.kind = "returned"
            /\ op'.outcome.what \in {AgentContent, FallbackResult}]_vars

\* an execute_command on an initialized manager has returned the fallback message
C25_Witness ==
    /\ op.method = "execute_command"
    /\ op.pc = "done"
    /\ op.outcome = Returned(FallbackResult)
    /\ op.call.fallback_calls = 1
    /\ manager.is_initialized

(***************************************************************************)
(* C26: once disable_server(name) has completed on an initialized manager, *)
(* get_healthy_connections() does not return name.                         *)
(***************************************************************************)
C26_DisabledServerNotHealthy ==
    (/\ op.method = "disable_server"
     /\ op.pc = "done"
     /\ op.outcome = Returned(True)
     /\ manager.is_initialized
     /\ ~manager.servers[op.arg])
    => op.arg \notin get_healthy_connections(pool, now).ret

(***************************************************************************)
(* C27: whenever no method and no health-check round is in progress, a     *)
(* server name has a ConnectionState entry exactly when it has an          *)
(* ErrorMetrics entry and a CircuitBreaker entry.                          *)
(***************************************************************************)
Quiescent ==
    /\ op.pc \in {"idle", "done"}
    /\ \A i \in DOMAIN hc : hc[i].pc \in {"none", "sleeping", "finished"}

C27_PerServerMapsShareKeys ==
    Quiescent =>
        /\ DOMAIN manager.connection_states = DOMAIN pool.connection_metrics
        /\ DOMAIN manager.connection_states = DOMAIN pool.circuit_breakers

(***************************************************************************)
(* C28: a step that changes the ErrorMetrics or the breaker of a pooled    *)
(* server is a record_operation_result for that server (after the          *)
(* can_execute of the call that records); nothing else changes or resets   *)
(* them.                                                                   *)
(***************************************************************************)
Recordings(p, n, t) ==
    LET q == [p EXCEPT !.circuit_breakers[n] = can_execute(@, t).breaker] IN
    {record_operation_result(r, n, TRUE, "None", t) : r \in {p, q}}
    \cup {record_operation_result(r, n, FALSE, k, t) : r \in {p, q}, k \in ErrorType}
    \cup {q}

C28_OnlyRecordingChangesMetrics ==
    [][\A n \in DOMAIN pool.connection_metrics :
          \/ /\ n \in DOMAIN pool'.connection_metrics
             /\ pool'.connection_metrics[n] = pool.connection_metrics[n]
             /\ pool'.circuit_breakers[n] = pool.circuit_breakers[n]
          \/ pool' \in Recordings(pool, n, now)]_vars

(***************************************************************************)
(* C30: an initialize that did not succeed has raised to its caller, every *)
(* enabled server is FAILED, the manager is not marked initialized and no  *)
(* health-check loop is running.                                           *)
(***************************************************************************)
C30_FailedInitializeRaises ==
    (/\ op.method = "initialize"
     /\ op.pc = "done"
     /\ op.outcome # Returned(True))
    => /\ op.outcome.kind = "raised"
       /\ \A n \in DOMAIN manager.servers :
             manager.servers[n] =>
                /\ n \in DOMAIN manager.connection_states
                /\ manager.connection_states[n] = ConnectionState_FAILED
       /\ ~manager.is_initialized
       /\ \A i \in DOMAIN hc : ~Active(hc[i])

(***************************************************************************)
(* C39: when a Normal-mode execution of a graph is over, no node of the    *)
(* graph is Running, whatever the retry_count of its nodes.                *)
(***************************************************************************)
C39_NoNodeLeftRunning ==
    (run.pc = "done" /\ run.mode = NORMAL)
    => \A i \in 1..Len(graph.nodes) : graph.nodes[i].status # NodeStatus_RUNNING

(***************************************************************************)
(* C37: while the breaker is HalfOpen, the operations can_execute has      *)
(* admitted since HalfOpen was entered are at most half_open_max_calls,    *)
(* whether or not any of them has recorded its result.                     *)
(***************************************************************************)
C37_HalfOpenAdmitsAtMostMaxCalls ==
    breaker.state = RECONNECTING => bh.halfOpenAdmitted <= breaker.config.half_open_max_calls

\* the step starts an invocation of caller c's operation: the first one of a
\* new call, or a further attempt of the call under way
StartsInvocation(c) ==
    IF started' # started /\ calls'[c] # calls[c]
    THEN calls'[c].retry.invocations > 0
    ELSE calls'[c].retry.invocations > calls[c].retry.invocations

\* the breaker of connection `name` is Open and recovery_timeout has not elapsed
OpenAndNotElapsed(name) ==
    /\ name \in DOMAIN pool.circuit_breakers
    /\ pool.circuit_breakers[name].state = CIRCUIT_OPEN
    /\ ~(now - pool.circuit_breakers[name].last_failure_time
            > pool.circuit_breakers[name].config.recovery_timeout)

(***************************************************************************)
(* C38: no invocation of an operation starts while the breaker of its      *)
(* connection is Open and recovery_timeout has not elapsed, the later      *)
(* retry attempts of a call admitted before the breaker opened included.   *)
(***************************************************************************)
C38_NoInvocationWhileOpen ==
    [][\A c \in Callers :
          StartsInvocation(c) => ~OpenAndNotElapsed(calls'[c].connection_name)]_vars

(***************************************************************************)
(* C35: the success_rate a get_stats call returns is completed /           *)
(* (completed + failed) over the tasks that are Completed or Failed when   *)
(* it is called, and 0 when there is none, whatever operations and         *)
(* get_stats calls came before.                                            *)
(***************************************************************************)
C35_SuccessRateOverProcessedTasks ==
    gs.returned =>
        LET completed == Cardinality({id \in DOMAIN tasks : tasks[id].status = COMPLETED})
            failed == Cardinality({id \in DOMAIN tasks : tasks[id].status = FAILED}) IN
        stats.success_rate = IF completed + failed = 0 THEN TrueDiv(0, 1)
                             ELSE TrueDiv(completed, completed + failed)

\* get_stats has returned 1/2 with one task Completed and the other Failed
C35_Witness ==
    /\ gs.returned
    /\ stats.success_rate = TrueDiv(1, 2)
    /\ \E a, b \in DOMAIN tasks : tasks[a].status = COMPLETED /\ tasks[b].status = FAILED

\* the collaborators invoked in the attempt of frame f
Invoked(f) == {f.invoked[i] : i \in 1..Len(f.invoked)}

NewProbes(i) ==
    IF hc'[i] = hc[i] \/ hc'[i] = [hc[i] EXCEPT !.pc = "finished"] THEN {}
    ELSE IF hc[i].pc = "sleeping" THEN 1..Len(hc'[i].probed)
    ELSE (Len(hc[i].probed) + 1)..Len(hc'[i].probed)

\* the servers enabled in the manager m
Enabled(m) == {n \in DOMAIN m.servers : m.servers[n]}

(***************************************************************************)
(* C31: for each server probed in a health round, a successful probe sets  *)
(* the failure counter to 0 and the state to Connected; a failed probe, a  *)
(* refused one included, adds exactly 1 to the counter and sets the state  *)
(* to Reconnecting when the new counter is below 3 and to Failed when it   *)
(* is 3 or more; only enabled servers are probed.  When the probes of a    *)
(* step trigger no reconnect, counter and state are still so after it.     *)
(***************************************************************************)
C31_ProbeOutcomeSetsCounterAndState ==
    /\ [](\A i \in DOMAIN hc : \A k \in 1..Len(hc[i].probed) :
            LET e == hc[i].probed[k] IN
            IF e.ok
            THEN e.failures = 0 /\ e.state = CONNECTED
            ELSE /\ e.failures = e.before + 1
                 /\ e.state = IF e.failures < 3 THEN RECONNECTING
                              ELSE ConnectionState_FAILED)
    /\ [][\A i \in DOMAIN hc :
            /\ (hc'[i].pc = "probe" /\ hc'[i] # hc[i]) => hc'[i].server \in Enabled(manager)
            /\ \A k \in NewProbes(i) :
                  LET e == hc'[i].probed[k] IN
                  /\ e.refused => e.server \in Enabled(manager)
                  /\ (\A j \in NewProbes(i) : ~hc'[i].probed[j].reconnect) =>
                        /\ manager'.health_check_failures[e.server] = e.failures
                        /\ manager'.connection_states[e.server] = e.state]_vars

\* a round has probed both servers: s1, never connected, was refused, which made
\* its third failure and its state Failed; s2 answered after two failures, which
\* reset its counter
C31_Witness ==
    \E i \in DOMAIN hc :
       /\ Len(hc[i].probed) = 2
       /\ hc[i].probed[1].server = "s1" /\ ~hc[i].probed[1].ok /\ hc[i].probed[1].refused
       /\ hc[i].probed[1].failures = 3 /\ hc[i].probed[1].state = ConnectionState_FAILED
       /\ hc[i].probed[2].server = "s2" /\ hc[i].probed[2].ok
       /\ hc[i].probed[2].before = 2
       /\ manager.health_check_failures = [s1 |-> 3, s2 |-> 0]
       /\ manager.connection_states = [s1 |-> ConnectionState_FAILED, s2 |-> CONNECTED]

\* the connection state the manager m holds for server n
StateOf(m, n) ==
    IF n \in DOMAIN m.connection_states THEN m.connection_states[n] ELSE "None"

(***************************************************************************)
(* C32: a failed probe calls the single-server reconnect exactly when      *)
(* auto-reconnect is enabled and the failure counter after the increment   *)
(* is 2 or more; an attempt of it reconnects every enabled server; when    *)
(* the probes of a step trigger no reconnect, the state and the counter of *)
(* every server they did not probe are unchanged.                          *)
(***************************************************************************)
C32_ReconnectExactlyFromSecondFailure ==
    /\ [](\A i \in DOMAIN hc : \A k \in 1..Len(hc[i].probed) :
            LET e == hc[i].probed[k] IN
            e.reconnect <=> (~e.ok /\ manager.settings.auto_reconnect /\ e.failures >= 2))
    /\ [][\A i \in DOMAIN hc :
            /\ (hc'[i].pc = "connect" /\ hc'[i] # hc[i]) =>
                  /\ hc'[i].enabled_servers = Enabled(manager')
                  /\ \A n \in Enabled(manager') :
                        manager'.connection_states[n] = CONNECTING
            /\ (/\ hc[i].pc \in {"sleeping", "probe"}
                /\ NewProbes(i) # {}
                /\ \A j \in NewProbes(i) : ~hc'[i].probed[j].reconnect) =>
                  \A n \in DOMAIN manager.servers :
                     (\A j \in NewProbes(i) : hc'[i].probed[j].server # n) =>
                        /\ StateOf(manager', n) = StateOf(manager, n)
                        /\ GetOr0(manager'.health_check_failures, n)
                              = GetOr0(manager.health_check_failures, n)]_vars

\* the second failure of s1 in a row has started a reconnect of both servers
C32_Witness ==
    \E i \in DOMAIN hc :
       /\ hc[i].pc = "connect" /\ hc[i].enabled_servers = {"s1", "s2"}
       /\ Len(hc[i].probed) = 1
       /\ hc[i].probed[1].server = "s1" /\ ~hc[i].probed[1].ok
       /\ hc[i].probed[1].failures = 2 /\ hc[i].probed[1].reconnect
       /\ hc[i].probed[1].attempts = 1
       /\ manager.connection_states = [s1 |-> CONNECTING, s2 |-> CONNECTING]

\* the loop of slot i is inside _attempt_reconnect_single_server
Reconnecting(i) == hc[i].pc \in {"connect", "reconnect_sleep"}

(***************************************************************************)
(* C33: a single-server reconnect makes at most max_reconnect_attempts     *)
(* attempts and then returns: it stops at the first attempt that succeeds, *)
(* and when every attempt failed it leaves the target Failed and returns   *)
(* False.                                                                  *)
(***************************************************************************)
C33_ReconnectEndsWithinMaxAttempts ==
    /\ [](\A i \in DOMAIN hc :
            /\ \A k \in 1..Len(hc[i].probed) :
                  LET e == hc[i].probed[k] IN
                  /\ e.attempts <= manager.settings.max_reconnect_attempts
                  /\ e.returned # None => e.reconnect /\ e.attempts >= 1
                  /\ e.returned = False =>
                        /\ e.attempts = manager.settings.max_reconnect_attempts
                        /\ e.left = ConnectionState_FAILED
                  /\ (e.reconnect /\ e.returned = None) =>
                        (k = Len(hc[i].probed) /\ Reconnecting(i))
            /\ Reconnecting(i) =>
                  /\ hc[i].probed[Len(hc[i].probed)].reconnect
                  /\ hc[i].probed[Len(hc[i].probed)].attempts = hc[i].attempt + 1)
    /\ [][\A i \in DOMAIN hc :
            (Reconnecting(i) /\ hc'[i] # hc[i]) =>
               LET k == Len(hc[i].probed)
                   e == hc'[i].probed[k] IN
               \/ /\ hc[i].pc = "connect" /\ e.returned = True
                  /\ e.attempts = hc[i].probed[k].attempts
               \/ /\ hc[i].pc = "connect" /\ e.returned = False
                  /\ e.attempts = hc[i].probed[k].attempts
               \/ /\ hc[i].pc = "connect" /\ hc'[i].pc = "reconnect_sleep"
                  /\ e = hc[i].probed[k]
               \/ /\ hc[i].pc = "reconnect_sleep" /\ hc'[i].pc = "connect"
                  /\ e.attempts = hc[i].probed[k].attempts + 1
                  /\ e.returned = None]_vars
    /\ \A i \in {1} : Reconnecting(i) ~> ~Reconnecting(i)

\* every attempt of a reconnect of s1 has failed: it returned False after
\* max_reconnect_attempts attempts and s1 is Failed
C33_Witness ==
    \E i \in DOMAIN hc :
       /\ Len(hc[i].probed) >= 1
       /\ hc[i].probed[1].server = "s1" /\ hc[i].probed[1].reconnect
       /\ hc[i].probed[1].returned = False
       /\ hc[i].probed[1].attempts = MaxReconnectAttempts
       /\ hc[i].probed[1].left = ConnectionState_FAILED
       /\ ~Reconnecting(i)
       /\ manager.connection_states["s1"] = ConnectionState_FAILED

(***************************************************************************)
(* C34: shutdown cancels the health-check loop and waits for it before it  *)
(* disconnects and clears, so once shutdown has returned, and until the    *)
(* manager is initialized again, no step of a health-check loop handles or *)
(* starts a probe or a reconnect attempt.                                  *)
(***************************************************************************)
C34_NoProbeAfterShutdown ==
    [][(op.method = "shutdown" /\ op.pc = "done" /\ op' = op) =>
          \A i \in DOMAIN hc :
             hc'[i] # hc[i] =>
                /\ hc[i].pc = "sleeping"
                /\ hc'[i].pc \in {"sleeping", "finished"}
                /\ hc'[i].probed = <<>>]_vars

(***************************************************************************)
(* C40: at most one health-check loop is active per manager, whatever      *)
(* sequence of initialize, enable, disable, reconnect and shutdown calls   *)
(* is made, initialize again without a shutdown included.                  *)
(***************************************************************************)
C40_AtMostOneHealthLoop ==
    Cardinality({i \in DOMAIN hc : Active(hc[i])}) <= 1

====
